---- MODULE Spec2Model ----
(***************************************************************************)
(* A state-machine model of the SoloForge mining engine:                   *)
(*   - the mining worker (package miner: Worker, its job mailbox and its   *)
(*     mineLoop goroutines) and the pool operations that drive it;         *)
(*   - the Stratum V1 client (package stratum: Client) and the HTTP        *)
(*     handlers that start and stop mining.                                *)
(* Goroutines are modelled by their positions; a step between two          *)
(* synchronisation points of the code (a lock section, a channel           *)
(* operation, a socket call) is one action.  A handler that makes several  *)
(* such steps is the disjunction of its step actions, its position being   *)
(* part of the state.                                                      *)
(***************************************************************************)
EXTENDS Integers, Sequences, FiniteSets, TLC

(***************************************************************************)
(* Program constants and model bounds.                                     *)
(***************************************************************************)

\* make(chan *stratum.Job, 10)
JobChannelCap == 10

\* UpdateJob calls made in the worker life-cycle specification
MaxJobs == 2

\* UpdateJob calls made in the mailbox specification
MaxBurst == 12

\* mineLoop goroutines of one worker alive at the same time
MaxLoops == 2

\* Stop calls of one worker that are between Unlock and close(w.shutdown)
MaxStoppers == 1

\* The pool under study holds the worker with the first id (NewManager: nextID 1)
WorkerIDs == {1}

\* Goroutines that deliver jobs: the Stratum read loop (job callback) and a
\* REST handler (handleMiningStart, handleWorkers)
Callers == {"stratum", "rest"}

\* (extranonce1, extranonce2Size) pairs a Start call is given: the pool's
\* zero values and the data of a subscribe response
StratumData == {<<"", 0>>, <<"81000001", 4>>}

\* Outcomes of rand.Read in generateExtranonce2
Draws == {"r1", "r2"}

\* The nil *stratum.Job
NoJob == 0

\* TCP connections dialed by Connect in one run
MaxConns == 2

\* Requests numbered by nextID in one run
MaxRequests == 2

\* The nil net.Conn
NilConn == 0

\* The goroutines that call Client.Submit at a time
Submitters == {"s1", "s2"}

\* num_workers of the configuration loaded (4 in DefaultConfig)
ConfiguredWorkers == 1

\* WalletAddress in DefaultConfig
DefaultWallet == "1FngDUBvDhPh9z3paCRHFEtHjnUMAFacn9"

\* The wallet addresses a PUT /config gives: none, or an address
Wallets == {"", "bc1qwallet"}

\* Lines the pool sends on its own in one run
MaxLines == 2

\* The elements of the params array of a mining.notify
NotifyParams == 9

\* Nonces tried in one batch (batchSize)
BatchSize == 2

\* UpdateJob calls made in the mining specification
MaxMined == 4

\* AddWorker calls made in the specification of the pool's membership
MaxWorkers == 3

\* AddWorker calls made in the specification of the whole pool
MaxPooled == 1

\* Goroutines that call the Manager at the same time: two HTTP handlers
PoolCallers == {"h1", "h2"}

\* The values SetShareCallback is given; "nil" is the nil func of NewManager
ShareCallbacks == {"nil", "submit"}

\* The values the setters of the Client's callbacks are given: nil or a func
ClientCallbacks == {"nil", "func"}

\* The callback fields NewClient leaves: all nil
NoCallbacks == [onConnected |-> "nil", onDisconnected |-> "nil",
                onJobReceived |-> "nil", onSubscribed |-> "nil",
                onAuthorized |-> "nil"]

\* cpuPercent: 80 in NewManager, MaxCPUPercent: 80 in DefaultConfig
DefaultCPUPercent == 80

\* The numbers a PUT /config gives for max_cpu_percent, and the percent
\* SetCPUPercent is called with
Percents == {0, 50, 150}

\* Headers a worker hashes in the specification of its hash counter
MaxHashes == 3

\* Jobs given to the worker in that specification and in the one of its
\* termination
MaxCounted == 1

\* Collector.maxHistorySize: the cap NewCollector is given
MaxHistorySize == 2

\* The cap of the session history
MaxSessionHistory == 50

\* Entries the Collector stamps in the specification of its histories
MaxStamps == 3

\* Lengths of the share and block histories of a stats.json: up to one more
\* than the cap (a document written under a larger cap)
StoredLengths == 0..(MaxHistorySize + 1)

\* Lengths of the session history of a stats.json
StoredSessions == {0, MaxSessionHistory - 1, MaxSessionHistory + 1}

\* The total_hashes of a stats.json
StoredHashes == {0, 2}

\* Difficulties of the shares given to AddShare
Difficulties == {1, 2}

\* What WSHub.logHistory keeps
LogHistoryCap == 50

\* Capacity of a WSClient's send channel
SendBuffer == 256

\* "log" events broadcast in the specification of the hub
MaxLogs == 52

\* Other events broadcast in that specification
MaxOther == 0

\* Messages a writePump writes to its connection in that specification
MaxWritten == 2

\* The goroutines that call BroadcastEvent
Broadcasters == {"b1"}

\* The WSClients HandleWebSocket makes
WSClients == {"ws1"}

\* The event types given to BroadcastEvent
EventTypes == {"log", "stats"}

\* The exponent bytes of the nbits given to calculateTarget, as hex digits
ExponentDigits ==
    {<<"0", "0">>, <<"0", "1">>, <<"0", "2">>, <<"0", "3">>, <<"0", "4">>,
     <<"1", "d">>, <<"f", "f">>}

\* The hex digits of their coefficients, in the first, fourth and sixth place
CoefficientDigits == {"0", "8", "f"}

\* Strings that do not decode to four bytes: empty, short, odd, long, and
\* with a character that is no hex digit
MalformedNBits ==
    {<<>>, <<"1", "d">>, <<"1", "d", "0", "0", "f", "f">>,
     <<"1", "d", "0", "0", "f", "f", "f">>,
     <<"1", "d", "0", "0", "f", "f", "f", "f", "0", "0">>,
     <<"1", "d", "0", "0", "f", "f", "z", "z">>, <<"z", "z">>}

\* Bits of the mantissa of a number: the three-byte coefficient of nbits
MantissaBits == 24

\* The nbits of the jobs the pool sends: the regtest target, a target below
\* the difficulty-1 target, the difficulty-1 target, and a malformed field
NBitsSamples ==
    << <<"2", "0", "7", "f", "f", "f", "f", "f">>,
       <<"1", "c", "0", "0", "f", "f", "f", "f">>,
       <<"1", "d", "0", "0", "f", "f", "f", "f">>,
       <<"z", "z">> >>

\* Values of the reversed double SHA-256 of a header, as mantissa and shift:
\* 0, 1, 2^208, the difficulty-1 target, 2^224 and 2^255
HashSamples ==
    {[m |-> 0, sh |-> 0], [m |-> 1, sh |-> 0], [m |-> 1, sh |-> 208],
     [m |-> 65535, sh |-> 208], [m |-> 1, sh |-> 224], [m |-> 1, sh |-> 255]}


\* The hashes drawn where the values of the shares are not under study:
\* 2^224, which meets the regtest target and no other, and 2^255, which meets
\* none
PlainHashes == {[m |-> 1, sh |-> 224], [m |-> 1, sh |-> 255]}

VARIABLES
    \* ---- miner.Worker, one entry per worker id
    running,         \* Worker.running
    job,             \* Worker.job (NoJob: nil)
    extranonce1,     \* Worker.extranonce1
    extranonce2,     \* Worker.extranonce2: [hexlen, draw]
    shutdownClosed,  \* whether Worker.shutdown has been closed
    jobChannel,      \* Worker.jobChannel: the buffered jobs, oldest first
    loops,           \* the mineLoop goroutines: slot -> [pc, j]
    stoppers,        \* Stop calls past Unlock that have not yet closed w.shutdown
    callers,         \* UpdateJob calls in progress: caller -> [pc, w, j]
    \* ---- history of the run
    nextJob,         \* number given to the next job handed to UpdateJob
    enqueued,        \* per worker: the jobs sent into jobChannel, in order
    drained,         \* per worker: a mineLoop has received from jobChannel
    stopPanicked,    \* per worker: a Stop call panicked (close of closed channel)
    startIgnored,    \* per worker: a Start call found the worker running and returned
    \* ---- stratum.Client
    client,          \* the Client's fields: conn, running, shutdownClosed (whether
                     \* the current c.shutdown is closed), subscribed, authorized,
                     \* extranonce1, extranonce2Size, requestID
    connState,       \* each dialed net.Conn: "unused", "open", "closed", "broken"
    readLoops,       \* the readLoop goroutines, by the Connect that spawned them:
                     \* [pc, reader]
    inbox,           \* per connection: the requests the pool has yet to answer
    \* ---- api.Server
    starter,         \* handleMiningStart in progress: its position and locals
    submits,         \* the Submit calls in progress, by caller: [pc, id, conn, afterClose]
    stopping,        \* handleMiningStop in progress: [pc, w, ws]
    poolStarted,     \* handleMiningStart has started the pool's workers
    \* ---- history of the run
    wire,            \* the requests written to a connection, in order
    closePanicked,   \* a Close call panicked (close of closed channel)
    closedSinceConnect, \* Close has returned and no Connect has succeeded since
    submitAfterClose, \* outcome of the Submit calls made in that period
    \* ---- stratum.Client, the incoming side
    handlers,        \* the callback fields of the Client: onConnected,
                     \* onDisconnected, onJobReceived, onSubscribed and
                     \* onAuthorized ("nil" after NewClient)
    currentJob,      \* Client.currentJob (NoJob: nil)
    inHand,          \* per readLoop: the line ReadString returned, while
                     \* handleMessage has not run on it
    \* ---- history of the run
    callbacks,       \* the callback invocations, in order
    arrived,         \* the jobs of the well-formed mining.notify lines, in
                     \* the order they were read from the connection
    lines,           \* number of lines the pool has sent on its own
    lastHandled,     \* the line of the last handleMessage call that returned
    \* ---- miner.Worker, the batches
    snapshot,        \* per mineLoop: the extranonce1 and extranonce2 read with
                     \* the job at the start of the batch in flight
    \* ---- history of the run
    lastShare,       \* the arguments of the last onShareFound call
    lastBatch,       \* the batch that call came from: its job and extranonces,
                     \* the number of nonces tried and their hashes
    \* ---- miner.Manager
    manager,         \* the Manager's fields: nextID, cpuPercent, extranonce1,
                     \* extranonce2Size, onShareFound
    workers,         \* Manager.workers: the ids in the map
    worker,          \* the Worker made by NewWorker for each id: running,
                     \* cpuPercent, onShareFound, extranonce1, extranonce2Size
                     \* (the size its extranonce2 was drawn with), closed
                     \* (whether its shutdown channel is closed), mining
                     \* (whether a mineLoop spawned while the channel was
                     \* open is alive)
    ops,             \* the Manager calls in progress, by calling goroutine
    \* ---- history of the run
    added,           \* the ids of the workers AddWorker returned, in order
    removed,         \* the ids RemoveWorker took out of the map
    \* ---- config.Config
    cfg,             \* the Config's fields: MaxCPUPercent, WalletAddress
    \* ---- miner.Worker, the hash counter
    hashCount,       \* Worker.hashCount
    tried,           \* per mineLoop: the nonces mineBatch has tried so far
                     \* in the batch in flight (its loop variable i)
    \* ---- history of the run
    hashed,          \* per worker: the headers mineBatch has hashed
    seen,            \* per worker: the last value GetHashCount returned
    \* ---- stats.Collector
    stats,           \* the Collector's fields: totalHashes, startHashes,
                     \* totalShares, acceptedShares,
                     \* rejectedShares, bestDifficulty, shareHistory,
                     \* blockHistory, sessionHistory
    now,             \* time.Now(), as the number of entries stamped so far
    \* ---- history of the run
    shareLog,        \* the share entries put into the Collector since the last
                     \* Load or Reset, those loaded included, oldest first
    blockLog,        \* the same for the block entries
    sessionLog,      \* the same for the sessions (Reset keeps them)
    tick,            \* the tick of the stats loop in progress: [pc, ws, total]
    \* ---- api.WSHub
    hub,             \* the WSHub's fields: clients (the WSClients in the map)
                     \* and logHistory
    sendChan,        \* per WSClient: [buf, closed], its send channel with the
                     \* messages buffered, oldest first
    pending,         \* per broadcasting goroutine: the event BroadcastEvent
                     \* has built and not yet handed to Broadcast
    events,          \* the events built so far: [log, other]
    \* ---- history of the run
    logged,          \* the "log" events appended to logHistory, in order
    replayed,        \* per WSClient: the logHistory AddClient found
    hubBlocked,      \* AddClient is blocked on a full send channel, h.mu held
    writePumps,      \* per WSClient: its writePump: [pc, message (the one
                     \* received from the send channel and not yet
                     \* written), written (the messages written to the
                     \* connection, in order)]
    \* ---- calculateTarget
    decoded          \* the last call of calculateTarget: [nbits, target]

workerVars == <<running, job, extranonce1, extranonce2, shutdownClosed,
                jobChannel, loops, stoppers, callers,
                nextJob, enqueued, drained, stopPanicked, startIgnored>>

clientVars == <<client, connState, readLoops, inbox, starter, poolStarted,
                wire, closePanicked, closedSinceConnect, submitAfterClose,
                submits, stopping>>

sessionVars == <<handlers, currentJob, inHand, callbacks, arrived, lines,
                 lastHandled>>

miningVars == <<snapshot, lastShare, lastBatch>>

poolVars == <<manager, workers, worker, ops, added, removed, cfg>>

hashVars == <<hashCount, tried, hashed, seen>>

statsVars == <<stats, now, shareLog, blockLog, sessionLog, tick>>

hubVars == <<hub, sendChan, pending, events, logged, replayed, hubBlocked,
            writePumps>>

vars == <<workerVars, clientVars, sessionVars, miningVars, poolVars, hashVars, statsVars, hubVars, decoded>>

(***************************************************************************)
(* Helpers                                                                 *)
(***************************************************************************)

Last(s) == s[Len(s)]

NoLoop == [pc |-> "none", j |-> NoJob]

LoopSlots == 1..MaxLoops

\* the mineLoop goroutines of a worker that have not returned or panicked
LiveLoops(w) == {l \in LoopSlots : loops[w][l].pc \notin {"none", "panicked"}}

FreeSlot(w) == CHOOSE l \in LoopSlots :
                 /\ loops[w][l].pc = "none"
                 /\ \A k \in LoopSlots : loops[w][k].pc = "none" => l <= k

\* A float64 that holds an integer: (hi * 2^27 + lo) * 2^e, negated when neg.
\* The 53 bits of the mantissa are hi (26 bits) and lo (27 bits); e is 0
\* below 2^53, and above it the mantissa has its highest bit set.  Float(n) is
\* the float64 of 0 <= n < 2^31.
Float(n) == [neg |-> FALSE, e |-> 0, hi |-> n \div (2 ^ 27), lo |-> n % (2 ^ 27)]

\* no batch in flight: the extranonces read for a batch, and what mineBatch
\* returned to mineLoop (hashes: the hashes of the nonces it tried)
NoSnapshot == [e1 |-> "", e2 |-> [hexlen |-> 0, draw |-> ""], cpuPercent |-> 0,
               hashes |-> <<>>, nonce |-> 0, difficulty |-> Float(0)]

\* no share reported yet
NoShare == [workerID |-> 0, jobID |-> NoJob, extranonce2 |-> NoSnapshot.e2,
            ntime |-> 0, nonce |-> 0, difficulty |-> Float(0)]

NoBatch == [w |-> 0, job |-> NoJob, extranonce1 |-> "",
            extranonce2 |-> NoSnapshot.e2, hashes |-> <<>>, tried |-> 0]

\* The job the pool sent as its j-th: its id, nbits and ntime
Job(j) ==
    [ID |-> j,
     NBits |-> NBitsSamples[((j - 1) % Len(NBitsSamples)) + 1],
     NTime |-> 100 + j,
     CleanJobs |-> TRUE]

ConnIDs == 1..MaxConns

NoReadLoop == [pc |-> "none", reader |-> NilConn]

NoStarter == [pc |-> "idle", conn |-> NilConn, id |-> 0, e1 |-> "", size |-> 0,
              n |-> 0, w |-> 0, ws |-> {}, job |-> NoJob]

\* no Submit in progress in a goroutine
NoSubmit == [pc |-> "idle", id |-> 0, conn |-> NilConn, afterClose |-> FALSE]

\* no tick of the stats loop in progress
NoTick == [pc |-> "idle", ws |-> {}, total |-> 0, payload |-> 0]

\* no writePump has been started for a WSClient
NoWritePump == [pc |-> "none", message |-> [type |-> "", n |-> 0],
                written |-> <<>>]

\* no handleMiningStop in progress
NoStopping == [pc |-> "idle", w |-> 0, ws |-> {}]

\* a Response without result and error
NoResult == [error |-> FALSE, array |-> FALSE, absent |-> TRUE,
             e1 |-> "", size |-> 0, ok |-> FALSE]

\* no line in hand
NoLine == [valid |-> FALSE, id |-> 0, method |-> "", nparams |-> 0,
           job |-> NoJob, r |-> NoResult]

\* generateExtranonce2(size): hex of `size` random bytes
generateExtranonce2(size) ==
    {[hexlen |-> 2 * size, draw |-> d] :
        d \in IF size = 0 THEN {""} ELSE Draws}

(***************************************************************************)
(* Numbers of mineBatch.  A big.Int is held as a mantissa and a bit shift, *)
(* [m |-> m, sh |-> sh] standing for m * 2^sh with 0 <= m < 2^24: the      *)
(* targets of calculateTarget have this form, and the hashes tried are     *)
(* taken of this form.                                                     *)
(***************************************************************************)

Big(m, sh) == [m |-> m, sh |-> sh]

\* new(big.Int)
Zero == Big(0, 0)

\* big.Int.Sign
Sign(x) == IF x.m = 0 THEN 0 ELSE 1

\* x.Cmp(y) <= 0, computed without leaving the 32-bit range
CmpLeq(x, y) ==
    IF x.m = 0 THEN TRUE
    ELSE IF y.m = 0 THEN FALSE
    ELSE IF x.sh >= y.sh
      THEN /\ x.sh - y.sh < MantissaBits
           /\ x.m <= y.m \div (2 ^ (x.sh - y.sh))
      ELSE \/ y.sh - x.sh >= MantissaBits
           \/ (x.m + 2 ^ (y.sh - x.sh) - 1) \div (2 ^ (y.sh - x.sh)) <= y.m

\* the hexadecimal digits and their values
HexVal ==
    [c \in {"0", "1", "2", "3", "4", "5", "6", "7", "8", "9",
            "a", "b", "c", "d", "e", "f", "A", "B", "C", "D", "E", "F"} |->
       CASE c = "0" -> 0 [] c = "1" -> 1 [] c = "2" -> 2 [] c = "3" -> 3
         [] c = "4" -> 4 [] c = "5" -> 5 [] c = "6" -> 6 [] c = "7" -> 7
         [] c = "8" -> 8 [] c = "9" -> 9 [] c = "a" -> 10 [] c = "b" -> 11
         [] c = "c" -> 12 [] c = "d" -> 13 [] c = "e" -> 14 [] c = "f" -> 15
         [] c = "A" -> 10 [] c = "B" -> 11 [] c = "C" -> 12 [] c = "D" -> 13
         [] c = "E" -> 14 [] c = "F" -> 15]

\* hex.DecodeString with its error dropped: the bytes of the pairs of digits
\* up to the first character that is not a digit or the odd last character.
\* A string is the sequence of its characters.
RECURSIVE DecodeString(_)
DecodeString(s) ==
    IF Len(s) < 2 THEN <<>>
    ELSE IF s[1] \notin DOMAIN HexVal \/ s[2] \notin DOMAIN HexVal THEN <<>>
    ELSE <<16 * HexVal[s[1]] + HexVal[s[2]]>> \o DecodeString(SubSeq(s, 3, Len(s)))

\* Lsh by uint(8*(exp-3)) with exp < 3: the shift count wraps to nearly 2^64,
\* and the result cannot be allocated unless the coefficient is zero
Unallocatable == Big(-1, 0)

\* calculateTarget: zero unless nbits decodes to four bytes; otherwise the
\* three-byte coefficient shifted left by 8*(exp-3) bits
calculateTarget(nbits) ==
    LET nbitsBytes == DecodeString(nbits)
    IN  IF Len(nbitsBytes) # 4 THEN Zero
        ELSE LET exp == nbitsBytes[1]
                 coeff == 65536 * nbitsBytes[2] + 256 * nbitsBytes[3] + nbitsBytes[4]
             IN  IF exp >= 3 THEN Big(coeff, 8 * (exp - 3))
                 ELSE IF coeff = 0 THEN Zero
                 ELSE Unallocatable

\* difficulty1Target: 0x00000000FFFF followed by 52 zero digits
difficulty1Target == Big(65535, 208)

\* the k binary digits of n < 2^31, the most significant first
BitsOf(n, k) ==
    [i \in 1..k |-> IF k - i >= 31 THEN 0 ELSE (n \div (2 ^ (k - i))) % 2]

\* the number a sequence of fewer than 31 binary digits stands for, taken
\* four digits at a time
RECURSIVE ValueOf(_)
ValueOf(b) ==
    LET digit(i) == IF i >= 1 THEN b[i] ELSE 0
        n == Len(b)
        low == 8 * digit(n - 3) + 4 * digit(n - 2) + 2 * digit(n - 1) + digit(n)
    IN  IF n <= 4 THEN low
        ELSE 16 * ValueOf(SubSeq(b, 1, n - 4)) + low

\* (r * 2^j) % m for r < m < 2^24, seven doublings at a time, which keeps
\* the products below 2^31
RECURSIVE Remainder(_, _, _)
Remainder(r, j, m) ==
    IF r = 0 THEN 0
    ELSE IF j < 7 THEN (r * 2 ^ j) % m
    ELSE Remainder((r * 128) % m, j - 7, m)

\* Div(difficulty1Target, h) for h > 0, held by its low 64 binary digits, the
\* most significant first, and `over`: whether it is 2^64 or more.  With
\* top * 2^k the target shifted right by h.sh, the quotient by h.m is
\* (top \div h.m) * 2^k plus the quotient of (top % h.m) * 2^k, whose digits
\* are those of the long division.
Quotient(h) ==
    LET top == IF h.sh <= difficulty1Target.sh THEN difficulty1Target.m
               ELSE IF h.sh - difficulty1Target.sh >= 16 THEN 0
               ELSE difficulty1Target.m \div (2 ^ (h.sh - difficulty1Target.sh))
        k == IF h.sh <= difficulty1Target.sh THEN difficulty1Target.sh - h.sh
             ELSE 0
        digit(p) == IF p >= k
                      THEN IF p - k >= 16 THEN 0
                           ELSE ((top \div h.m) \div (2 ^ (p - k))) % 2
                      ELSE IF 2 * Remainder(top % h.m, k - p - 1, h.m) >= h.m
                             THEN 1 ELSE 0
    IN  [bits |-> SubSeq([i \in 1..64 |-> digit(64 - i)], 1, 64),
         over |-> IF k >= 88 THEN top > 0
                  ELSE IF k >= 64
                    THEN top >= (h.m + 2 ^ (k - 64) - 1) \div (2 ^ (k - 64))
                  ELSE IF 64 - k >= 16 THEN FALSE
                  ELSE top \div (2 ^ (64 - k)) >= h.m]

\* whether Div(difficulty1Target, h), h > 0, is below 2^63, the range of Int64
QuotientFitsInt64(h) == ~Quotient(h).over /\ Quotient(h).bits[1] = 0

\* big.Int.Int64: the low 64 bits of the number read in two's complement,
\* held as a sign and the 64 binary digits of the absolute value
Int64(q) ==
    LET ones == {i \in 1..64 : q.bits[i] = 1}
        last == CHOOSE i \in ones : \A j \in ones : j <= i
    IN  IF q.bits[1] = 0 THEN [neg |-> FALSE, mag |-> q.bits]
        ELSE [neg |-> TRUE,
              mag |-> [i \in 1..64 |-> IF i < last THEN 1 - q.bits[i]
                                       ELSE q.bits[i]]]

\* float64(v) of an int64: v itself below 2^53 in absolute value; above, v
\* rounded to 53 binary digits, to the nearest, a tie going to the even one
Float64(v) ==
    LET ones == {i \in 1..64 : v.mag[i] = 1}
        first == IF ones = {} THEN 65
                 ELSE CHOOSE i \in ones : \A j \in ones : i <= j
        len == 65 - first
    IN  IF len <= 53
          THEN [neg |-> v.neg, e |-> 0,
                hi |-> ValueOf(SubSeq(v.mag, 12, 37)),
                lo |-> ValueOf(SubSeq(v.mag, 38, 64))]
          ELSE LET hi == ValueOf(SubSeq(v.mag, first, first + 25))
                   lo == ValueOf(SubSeq(v.mag, first + 26, first + 52))
                   up == /\ v.mag[first + 53] = 1
                         /\ \/ lo % 2 = 1
                            \/ \E i \in (first + 54)..64 : v.mag[i] = 1
               IN  IF ~up
                     THEN [neg |-> v.neg, e |-> len - 53, hi |-> hi, lo |-> lo]
                   ELSE IF lo + 1 < 2 ^ 27
                     THEN [neg |-> v.neg, e |-> len - 53, hi |-> hi, lo |-> lo + 1]
                   ELSE IF hi + 1 < 2 ^ 26
                     THEN [neg |-> v.neg, e |-> len - 53, hi |-> hi + 1, lo |-> 0]
                   ELSE [neg |-> v.neg, e |-> len - 52, hi |-> 2 ^ 25, lo |-> 0]

\* x > y on these floats
FloatGreater(x, y) ==
    LET above(a, b) == \/ a.e > b.e
                       \/ a.e = b.e /\ a.hi > b.hi
                       \/ a.e = b.e /\ a.hi = b.hi /\ a.lo > b.lo
    IN  IF x.neg # y.neg THEN y.neg
        ELSE IF x.neg THEN above(y, x)
        ELSE above(x, y)

\* float64(diff.Int64()) for diff = Div(difficulty1Target, h), h > 0; a
\* quotient of a dividend below 2^31 is computed on the model's integers
diffFloat(h) ==
    IF h.sh > difficulty1Target.sh
      THEN IF h.sh - difficulty1Target.sh >= 16 THEN Float(0)
           ELSE Float((difficulty1Target.m \div
                          (2 ^ (h.sh - difficulty1Target.sh))) \div h.m)
    ELSE IF difficulty1Target.sh - h.sh <= 14
      THEN Float((difficulty1Target.m * 2 ^ (difficulty1Target.sh - h.sh)) \div h.m)
    ELSE Float64(Int64(Quotient(h)))

\* mineBatch from its i-th nonce on: hashes[i] is the hash of the header with
\* the i-th random nonce, best the best difficulty and its nonce so far.  It
\* returns [found, nonce, difficulty], and the number of nonces tried.
RECURSIVE mineBatchFrom(_, _, _, _)
mineBatchFrom(target, hashes, i, best) ==
    IF i > Len(hashes)
      THEN [found |-> FALSE, nonce |-> best.nonce, difficulty |-> best.d,
            tried |-> Len(hashes), panicked |-> FALSE]
      ELSE LET hashInt == hashes[i]
               d == diffFloat(hashInt)
               b == IF Sign(hashInt) > 0 /\ FloatGreater(d, best.d)
                      THEN [d |-> d, nonce |-> i]
                      ELSE best
           IN  IF CmpLeq(hashInt, target)
                 THEN [found |-> TRUE, nonce |-> i, difficulty |-> b.d,
                       tried |-> i, panicked |-> FALSE]
                 ELSE mineBatchFrom(target, hashes, i + 1, b)

\* mineBatch comparing every hash with the largest target
mineBatchAnyTarget(nbits, hashes) ==
    mineBatchFrom(Big(8388607, 232), hashes, 1, [d |-> Float(0), nonce |-> 0])

\* mineBatch going through the whole batch and returning the last nonce whose
\* hash meets the target
mineBatchLastNonce(nbits, hashes) ==
    LET target == calculateTarget(nbits)
        meets == {i \in 1..Len(hashes) : CmpLeq(hashes[i], target)}
        last == CHOOSE i \in meets : \A k \in meets : k <= i
    IN  IF meets = {}
          THEN mineBatchFrom(target, hashes, 1, [d |-> Float(0), nonce |-> 0])
          ELSE [found |-> TRUE, nonce |-> last,
                difficulty |-> mineBatchFrom(Unallocatable, SubSeq(hashes, 1, last), 1,
                                             [d |-> Float(0), nonce |-> 0]).difficulty,
                tried |-> last, panicked |-> FALSE]

\* Worker.mineBatch on a job with these nbits; the nonce of a try is named by
\* its position in the batch (0: the empty bestNonce).  calculateTarget runs
\* first, and its panic is the one of the batch: no nonce is tried.
mineBatch(nbits, hashes) ==
    IF calculateTarget(nbits) = Unallocatable
      THEN [found |-> FALSE, nonce |-> 0, difficulty |-> Float(0),
            tried |-> 0, panicked |-> TRUE]
      ELSE mineBatchFrom(calculateTarget(nbits), hashes, 1,
                         [d |-> Float(0), nonce |-> 0])

(***************************************************************************)
(* miner.Manager and the Worker fields it sets                             *)
(***************************************************************************)
PoolIDs == 1..MaxWorkers

\* NewWorker(id, name, cpuPercent)
NewWorker(cpuPercent) ==
    [running |-> FALSE, cpuPercent |-> cpuPercent, onShareFound |-> "nil",
     extranonce1 |-> "", extranonce2Size |-> 0, closed |-> FALSE,
     mining |-> FALSE]

\* no Manager call in progress in a goroutine
NoOp == [op |-> "idle", w |-> 0, e1 |-> "", size |-> 0, p |-> 0, ws |-> {}]

\* Worker.Start on the fields above, and `go w.mineLoop()`: the mineLoop it
\* spawns while w.shutdown is open can mine, one spawned after the close
\* leaves at its first select
WorkerStart(wk, e1, size) ==
    IF wk.running
      THEN wk
      ELSE [wk EXCEPT !.running = TRUE, !.extranonce1 = e1,
                      !.extranonce2Size = size,
                      !.mining = wk.mining \/ ~wk.closed]

\* Worker.Stop on the fields above, the lock section: running is cleared
WorkerStop(wk) == [wk EXCEPT !.running = FALSE]

\* Worker.Stop past its Unlock: close(w.shutdown), which panics on a channel
\* that is closed already
ClosePanics(wk) == wk.closed

WorkerClose(wk) == [wk EXCEPT !.closed = TRUE]

\* no event in hand
NoEvent == [type |-> "", n |-> 0]

(***************************************************************************)
(* The state after construction: NewWorker, NewClient, NewServer           *)
(***************************************************************************)
Init ==
    /\ running = [w \in WorkerIDs |-> FALSE]
    /\ job = [w \in WorkerIDs |-> NoJob]
    /\ extranonce1 = [w \in WorkerIDs |-> ""]
    /\ extranonce2 = [w \in WorkerIDs |-> [hexlen |-> 0, draw |-> ""]]
    /\ shutdownClosed = [w \in WorkerIDs |-> FALSE]
    /\ jobChannel = [w \in WorkerIDs |-> <<>>]
    /\ loops = [w \in WorkerIDs |-> [l \in LoopSlots |-> NoLoop]]
    /\ stoppers = [w \in WorkerIDs |-> 0]
    /\ callers = [c \in Callers |-> [pc |-> "idle", w |-> 1, j |-> NoJob]]
    /\ nextJob = 1
    /\ enqueued = [w \in WorkerIDs |-> <<>>]
    /\ drained = [w \in WorkerIDs |-> FALSE]
    /\ stopPanicked = [w \in WorkerIDs |-> FALSE]
    /\ startIgnored = [w \in WorkerIDs |-> FALSE]
    /\ client = [conn |-> NilConn, running |-> FALSE, shutdownClosed |-> FALSE,
                 subscribed |-> FALSE, authorized |-> FALSE,
                 extranonce1 |-> "", extranonce2Size |-> 0, requestID |-> 0]
    /\ connState = [k \in ConnIDs |-> "unused"]
    /\ readLoops = [k \in ConnIDs |-> NoReadLoop]
    /\ inbox = [k \in ConnIDs |-> <<>>]
    /\ starter = NoStarter
    /\ submits = [s \in Submitters |-> NoSubmit]
    /\ stopping = NoStopping
    /\ poolStarted = FALSE
    /\ wire = <<>>
    /\ closePanicked = FALSE
    /\ closedSinceConnect = FALSE
    /\ submitAfterClose = "none"
    /\ handlers = NoCallbacks
    /\ currentJob = NoJob
    /\ inHand = [k \in ConnIDs |-> NoLine]
    /\ callbacks = <<>>
    /\ arrived = <<>>
    /\ lines = 0
    /\ lastHandled = NoLine
    /\ snapshot = [w \in WorkerIDs |-> [l \in LoopSlots |-> NoSnapshot]]
    /\ lastShare = NoShare
    /\ lastBatch = NoBatch
    /\ manager = [nextID |-> 1, cpuPercent |-> DefaultCPUPercent,
                  extranonce1 |-> "", extranonce2Size |-> 0,
                  onShareFound |-> "nil"]
    /\ workers = {}
    /\ worker = [id \in PoolIDs |-> NewWorker(0)]
    /\ ops = [c \in PoolCallers |-> NoOp]
    /\ added = <<>>
    /\ removed = {}
    /\ cfg = [MaxCPUPercent |-> DefaultCPUPercent, WalletAddress |-> DefaultWallet,
              NumWorkers |-> ConfiguredWorkers]
    /\ hashCount = [w \in WorkerIDs |-> 0]
    /\ tried = [w \in WorkerIDs |-> [l \in LoopSlots |-> 0]]
    /\ hashed = [w \in WorkerIDs |-> 0]
    /\ seen = [w \in WorkerIDs |-> 0]
    /\ stats = [totalHashes |-> 0, startHashes |-> 0,
                totalShares |-> 0, acceptedShares |-> 0, rejectedShares |-> 0,
                bestDifficulty |-> 0, shareHistory |-> <<>>,
                blockHistory |-> <<>>, sessionHistory |-> <<>>]
    /\ now = 0
    /\ tick = NoTick
    /\ shareLog = <<>>
    /\ blockLog = <<>>
    /\ sessionLog = <<>>
    /\ hub = [clients |-> {}, logHistory |-> <<>>]
    /\ sendChan = [c \in WSClients |-> [buf |-> <<>>, closed |-> FALSE]]
    /\ pending = [g \in Broadcasters |-> NoEvent]
    /\ events = [log |-> 0, other |-> 0]
    /\ logged = <<>>
    /\ replayed = [c \in WSClients |-> <<>>]
    /\ hubBlocked = FALSE
    /\ writePumps = [c \in WSClients |-> NoWritePump]
    /\ decoded = [nbits |-> <<>>, target |-> Zero]

(***************************************************************************)
(* Worker.Start: under w.mu, return if running; else set running, the      *)
(* extranonces, and spawn mineLoop.                                        *)
(***************************************************************************)
StartRunning(w, e1, size) ==
    /\ running[w]
    /\ startIgnored' = [startIgnored EXCEPT ![w] = TRUE]
    /\ UNCHANGED <<running, job, extranonce1, extranonce2, shutdownClosed,
                   jobChannel, loops, stoppers, callers, nextJob, enqueued,
                   drained, stopPanicked,
                   clientVars, sessionVars, miningVars, poolVars, hashVars, statsVars, hubVars, decoded>>

\* the body of Start past the early return, and `go w.mineLoop()`: the new
\* goroutine is counted from the lock section on, its first step comes later
StartBody(w, e1, size) ==
    /\ \E l \in LoopSlots : loops[w][l].pc = "none"
    /\ running' = [running EXCEPT ![w] = TRUE]
    /\ extranonce1' = [extranonce1 EXCEPT ![w] = e1]
    /\ \E x \in generateExtranonce2(size) :
           extranonce2' = [extranonce2 EXCEPT ![w] = x]
    /\ loops' = [loops EXCEPT ![w][FreeSlot(w)] = [pc |-> "select", j |-> NoJob]]

StartStopped(w, e1, size) ==
    /\ ~running[w]
    /\ StartBody(w, e1, size)
    /\ UNCHANGED <<job, shutdownClosed, jobChannel, stoppers, callers,
                   nextJob, enqueued, drained, stopPanicked,
                   startIgnored,
                   clientVars, sessionVars, miningVars, poolVars, hashVars, statsVars, hubVars, decoded>>

Start(w, e1, size) ==
    \/ StartRunning(w, e1, size)
    \/ StartStopped(w, e1, size)

(***************************************************************************)
(* Worker.Stop: under w.mu, return if not running, else clear running;     *)
(* then, outside the lock, close(w.shutdown).  The channel is made once,   *)
(* in NewWorker; closing a closed channel panics.                          *)
(***************************************************************************)
StopNotRunning(w) ==
    /\ ~running[w]
    /\ UNCHANGED vars

StopRunning(w) ==
    /\ running[w]
    /\ stoppers[w] < MaxStoppers
    /\ running' = [running EXCEPT ![w] = FALSE]
    /\ stoppers' = [stoppers EXCEPT ![w] = @ + 1]
    /\ UNCHANGED <<job, extranonce1, extranonce2, shutdownClosed, jobChannel,
                   loops, callers, nextJob, enqueued, drained, stopPanicked,
                   startIgnored,
                   clientVars, sessionVars, miningVars, poolVars, hashVars, statsVars, hubVars, decoded>>

Stop(w) ==
    \/ StopNotRunning(w)
    \/ StopRunning(w)

StopClose(w) ==
    /\ stoppers[w] > 0
    /\ stoppers' = [stoppers EXCEPT ![w] = @ - 1]
    /\ IF shutdownClosed[w]
         THEN /\ stopPanicked' = [stopPanicked EXCEPT ![w] = TRUE]
              /\ UNCHANGED shutdownClosed
         ELSE /\ shutdownClosed' = [shutdownClosed EXCEPT ![w] = TRUE]
              /\ UNCHANGED stopPanicked
    /\ UNCHANGED <<running, job, extranonce1, extranonce2, jobChannel,
                   loops, callers, nextJob, enqueued, drained,
                   startIgnored,
                   clientVars, sessionVars, miningVars, poolVars, hashVars, statsVars, hubVars, decoded>>

(***************************************************************************)
(* Worker.UpdateJob, three channel operations:                             *)
(*   select { case w.jobChannel <- job: default: ... }                     *)
(*   select { case <-w.jobChannel: default: }                              *)
(*   w.jobChannel <- job                        (blocks while full)        *)
(***************************************************************************)
Enqueue(w, j) ==
    /\ jobChannel' = [jobChannel EXCEPT ![w] = Append(@, j)]
    /\ enqueued' = [enqueued EXCEPT ![w] = Append(@, j)]

UpdateJob(c, w, limit) ==
    /\ callers[c].pc = "idle"
    /\ nextJob <= limit
    /\ nextJob' = nextJob + 1
    /\ IF Len(jobChannel[w]) < JobChannelCap
         THEN /\ Enqueue(w, nextJob)
              /\ UNCHANGED callers
         ELSE /\ callers' = [callers EXCEPT ![c] = [pc |-> "drop", w |-> w, j |-> nextJob]]
              /\ UNCHANGED <<jobChannel, enqueued>>
    /\ UNCHANGED <<running, job, extranonce1, extranonce2, shutdownClosed,
                   loops, stoppers, drained, stopPanicked,
                   startIgnored,
                   clientVars, sessionVars, miningVars, poolVars, hashVars, statsVars, hubVars, decoded>>

\* UpdateJob discarding the newest buffered job instead of the oldest
UpdateJobDropNewest(c) ==
    /\ callers[c].pc = "drop"
    /\ callers' = [callers EXCEPT ![c].pc = "send"]
    /\ jobChannel' = [jobChannel EXCEPT ![callers[c].w] =
                         IF @ = <<>> THEN @ ELSE SubSeq(@, 1, Len(@) - 1)]
    /\ UNCHANGED <<running, job, extranonce1, extranonce2, shutdownClosed,
                   loops, stoppers, nextJob, enqueued, drained, stopPanicked,
                   startIgnored,
                   clientVars, sessionVars, miningVars, poolVars, hashVars, statsVars, hubVars, decoded>>

UpdateJobDrop(c) ==
    /\ callers[c].pc = "drop"
    /\ callers' = [callers EXCEPT ![c].pc = "send"]
    /\ jobChannel' = [jobChannel EXCEPT ![callers[c].w] =
                         IF @ = <<>> THEN @ ELSE Tail(@)]
    /\ UNCHANGED <<running, job, extranonce1, extranonce2, shutdownClosed,
                   loops, stoppers, nextJob, enqueued, drained, stopPanicked,
                   startIgnored,
                   clientVars, sessionVars, miningVars, poolVars, hashVars, statsVars, hubVars, decoded>>

UpdateJobSend(c) ==
    /\ callers[c].pc = "send"
    /\ Len(jobChannel[callers[c].w]) < JobChannelCap
    /\ Enqueue(callers[c].w, callers[c].j)
    /\ callers' = [callers EXCEPT ![c] = [pc |-> "idle", w |-> @.w, j |-> NoJob]]
    /\ UNCHANGED <<running, job, extranonce1, extranonce2, shutdownClosed,
                   loops, stoppers, nextJob, drained, stopPanicked,
                   startIgnored,
                   clientVars, sessionVars, miningVars, poolVars, hashVars, statsVars, hubVars, decoded>>

(***************************************************************************)
(* Worker.mineLoop.  At the select, a ready case is chosen at random among *)
(* the ready ones; default runs only when neither channel is ready.        *)
(***************************************************************************)
LoopExit(w, l) ==
    /\ loops[w][l].pc = "select"
    /\ shutdownClosed[w]
    /\ loops' = [loops EXCEPT ![w][l] = NoLoop]
    /\ UNCHANGED <<running, job, extranonce1, extranonce2, shutdownClosed,
                   jobChannel, stoppers, callers, nextJob, enqueued, drained,
                   stopPanicked,
                   startIgnored,
                   clientVars, sessionVars, miningVars, poolVars, hashVars, statsVars, hubVars, decoded>>

LoopReceive(w, l) ==
    /\ loops[w][l].pc = "select"
    /\ jobChannel[w] # <<>>
    /\ loops' = [loops EXCEPT ![w][l] = [pc |-> "assign", j |-> Head(jobChannel[w])]]
    /\ jobChannel' = [jobChannel EXCEPT ![w] = Tail(@)]
    /\ drained' = [drained EXCEPT ![w] = TRUE]
    /\ UNCHANGED <<running, job, extranonce1, extranonce2, shutdownClosed,
                   stoppers, callers, nextJob, enqueued, stopPanicked,
                   startIgnored,
                   clientVars, sessionVars, miningVars, poolVars, hashVars, statsVars, hubVars, decoded>>

\* mineLoop drawing the new extranonce2 with len(w.extranonce2) bytes
LoopAssignFullLength(w, l) ==
    /\ loops[w][l].pc = "assign"
    /\ job' = [job EXCEPT ![w] = loops[w][l].j]
    /\ \E x \in generateExtranonce2(extranonce2[w].hexlen) :
           extranonce2' = [extranonce2 EXCEPT ![w] = x]
    /\ loops' = [loops EXCEPT ![w][l] = [pc |-> "select", j |-> NoJob]]
    /\ UNCHANGED <<running, extranonce1, shutdownClosed, jobChannel, stoppers,
                   callers, nextJob, enqueued, drained, stopPanicked,
                   startIgnored,
                   clientVars, sessionVars, miningVars, poolVars, hashVars, statsVars, hubVars, decoded>>

LoopAssign(w, l) ==
    /\ loops[w][l].pc = "assign"
    /\ job' = [job EXCEPT ![w] = loops[w][l].j]
    /\ \E x \in generateExtranonce2(extranonce2[w].hexlen \div 2) :
           extranonce2' = [extranonce2 EXCEPT ![w] = x]
    /\ loops' = [loops EXCEPT ![w][l] = [pc |-> "select", j |-> NoJob]]
    /\ UNCHANGED <<running, extranonce1, shutdownClosed, jobChannel, stoppers,
                   callers, nextJob, enqueued, drained, stopPanicked,
                   startIgnored,
                   clientVars, sessionVars, miningVars, poolVars, hashVars, statsVars, hubVars, decoded>>

\* a select whose default branch is taken although w.shutdown is closed
LoopDefaultIgnoringShutdown(w, l) ==
    /\ loops[w][l].pc = "select"
    /\ jobChannel[w] = <<>>
    /\ loops' = [loops EXCEPT ![w][l].pc = "default"]
    /\ UNCHANGED <<running, job, extranonce1, extranonce2, shutdownClosed,
                   jobChannel, stoppers, callers, nextJob, enqueued, drained,
                   stopPanicked, startIgnored,
                   clientVars, sessionVars, miningVars, poolVars, hashVars, statsVars, hubVars, decoded>>

\* the select takes its default branch: neither channel is ready
LoopDefault(w, l) ==
    /\ loops[w][l].pc = "select"
    /\ ~shutdownClosed[w]
    /\ jobChannel[w] = <<>>
    /\ loops' = [loops EXCEPT ![w][l].pc = "default"]
    /\ UNCHANGED <<running, job, extranonce1, extranonce2, shutdownClosed,
                   jobChannel, stoppers, callers, nextJob, enqueued, drained,
                   stopPanicked, startIgnored,
                   clientVars, sessionVars, miningVars, poolVars, hashVars, statsVars, hubVars, decoded>>

\* the default branch: under w.mu (RLock) the job, the extranonces and
\* cpuPercent are read; without a job the loop sleeps and goes back to its
\* select, otherwise mineBatch starts on what was read
LoopReadJob(w, l) ==
    /\ loops[w][l].pc = "default"
    /\ IF job[w] = NoJob
         THEN /\ loops' = [loops EXCEPT ![w][l].pc = "select"]
              /\ UNCHANGED snapshot
         ELSE /\ loops' = [loops EXCEPT ![w][l] = [pc |-> "batch", j |-> job[w]]]
              /\ snapshot' = [snapshot EXCEPT ![w][l] =
                                 [NoSnapshot EXCEPT
                                     !.e1 = extranonce1[w],
                                     !.e2 = extranonce2[w],
                                     !.cpuPercent = worker[w].cpuPercent]]
    /\ UNCHANGED <<running, job, extranonce1, extranonce2, shutdownClosed,
                   jobChannel, stoppers, callers, nextJob, enqueued, drained,
                   stopPanicked, startIgnored,
                   clientVars, sessionVars, lastShare, lastBatch, poolVars, hashVars, statsVars, hubVars, decoded>>

\* the hashes of the nonces tried in a batch or in its first part, when the
\* hashes are drawn from the set S
Tried(S) == UNION {[1..n -> S] : n \in 1..BatchSize}

\* Where mineLoop goes once its batch and the report of its share are over:
\* with the cpuPercent read for the batch below 100 it sleeps
\* (100 - cpuPercent) * 10 microseconds before its next select
AfterBatch(w, l) ==
    IF snapshot[w][l].cpuPercent < 100 THEN "throttle" ELSE "select"

\* mineBatch panics in calculateTarget, and the goroutine with it
LoopBatchPanic(w, l) ==
    /\ loops[w][l].pc = "batch"
    /\ mineBatch(Job(loops[w][l].j).NBits, <<>>).panicked
    /\ loops' = [loops EXCEPT ![w][l] = [pc |-> "panicked", j |-> NoJob]]
    /\ snapshot' = [snapshot EXCEPT ![w][l] = NoSnapshot]
    /\ UNCHANGED <<running, job, extranonce1, extranonce2, shutdownClosed,
                   jobChannel, stoppers, callers, nextJob, enqueued, drained,
                   stopPanicked, startIgnored,
                   clientVars, sessionVars, lastShare, lastBatch, poolVars, hashVars, statsVars, hubVars, decoded>>

\* mineBatch whose counter is incremented after the comparison with the
\* target, so that the hash that ends a batch is not counted
mineBatchHashCountedLate(w, l, hashes) ==
    /\ loops[w][l].pc = "batch"
    /\ tried[w][l] < BatchSize
    /\ hashed[w] < MaxHashes
    /\ Len(hashes) = tried[w][l] + 1
    /\ ~mineBatch(Job(loops[w][l].j).NBits, <<>>).panicked
    /\ hashed' = [hashed EXCEPT ![w] = @ + 1]
    /\ LET r == mineBatch(Job(loops[w][l].j).NBits, hashes)
          IN  IF r.found
                THEN /\ r.tried = tried[w][l] + 1
                     /\ snapshot' = [snapshot EXCEPT
                                        ![w][l].hashes = hashes,
                                        ![w][l].nonce = r.nonce,
                                        ![w][l].difficulty = r.difficulty]
                     /\ loops' = [loops EXCEPT ![w][l].pc = "found"]
                     /\ tried' = [tried EXCEPT ![w][l] = 0]
                     /\ UNCHANGED hashCount
                ELSE /\ tried' = [tried EXCEPT ![w][l] = @ + 1]
                     /\ hashCount' = [hashCount EXCEPT ![w] = @ + 1]
                     /\ UNCHANGED <<loops, snapshot>>
    /\ UNCHANGED <<running, job, extranonce1, extranonce2, shutdownClosed,
                   jobChannel, stoppers, callers, nextJob, enqueued, drained,
                   stopPanicked, startIgnored, seen,
                   clientVars, sessionVars, lastShare, lastBatch, poolVars, statsVars, hubVars, decoded>>

\* One pass of the loop of mineBatch: the header with a random nonce is
\* hashed and w.hashCount is incremented atomically (a 64-bit counter, which
\* MaxHashes keeps far from wrapping); a hash that meets the target ends the
\* batch, and mineBatch returns found with the nonce and the best difficulty
\* of the batch.  `hashes` are the hashes of the batch up to this one; they
\* are drawn when the batch ends, the earlier ones only bearing on the
\* difficulty returned.
mineBatchHash(w, l, hashes) ==
    /\ loops[w][l].pc = "batch"
    /\ tried[w][l] < BatchSize
    /\ hashed[w] < MaxHashes
    /\ Len(hashes) = tried[w][l] + 1
    /\ ~mineBatch(Job(loops[w][l].j).NBits, <<>>).panicked
    /\ hashed' = [hashed EXCEPT ![w] = @ + 1]
    /\ hashCount' = [hashCount EXCEPT ![w] = @ + 1]
    /\ LET r == mineBatch(Job(loops[w][l].j).NBits, hashes)
          IN  IF r.found
                THEN /\ r.tried = tried[w][l] + 1
                     /\ snapshot' = [snapshot EXCEPT
                                        ![w][l].hashes = hashes,
                                        ![w][l].nonce = r.nonce,
                                        ![w][l].difficulty = r.difficulty]
                     /\ loops' = [loops EXCEPT ![w][l].pc = "found"]
                     /\ tried' = [tried EXCEPT ![w][l] = 0]
                ELSE /\ tried' = [tried EXCEPT ![w][l] = @ + 1]
                     /\ UNCHANGED <<loops, snapshot>>
    /\ UNCHANGED <<running, job, extranonce1, extranonce2, shutdownClosed,
                   jobChannel, stoppers, callers, nextJob, enqueued, drained,
                   stopPanicked, startIgnored, seen,
                   clientVars, sessionVars, lastShare, lastBatch, poolVars, statsVars, hubVars, decoded>>

\* mineBatch has tried batchSize nonces and none met the target: it returns
\* not found, and mineLoop goes on to its throttle
mineBatchReturn(w, l) ==
    /\ loops[w][l].pc = "batch"
    /\ tried[w][l] = BatchSize
    /\ loops' = [loops EXCEPT ![w][l] = [pc |-> AfterBatch(w, l), j |-> NoJob]]
    /\ snapshot' = [snapshot EXCEPT ![w][l] = NoSnapshot]
    /\ tried' = [tried EXCEPT ![w][l] = 0]
    /\ UNCHANGED <<running, job, extranonce1, extranonce2, shutdownClosed,
                   jobChannel, stoppers, callers, nextJob, enqueued, drained,
                   stopPanicked, startIgnored, hashCount, hashed, seen,
                   clientVars, sessionVars, lastShare, lastBatch, poolVars, statsVars, hubVars, decoded>>

\* mineLoop, found being true, tests w.onShareFound (a read without w.mu):
\* nil, nothing is reported and the loop goes on to its throttle
LoopShareCheck(w, l) ==
    /\ loops[w][l].pc = "found"
    /\ IF worker[w].onShareFound = "nil"
         THEN /\ loops' = [loops EXCEPT ![w][l] = [pc |-> AfterBatch(w, l), j |-> NoJob]]
              /\ snapshot' = [snapshot EXCEPT ![w][l] = NoSnapshot]
         ELSE /\ loops' = [loops EXCEPT ![w][l].pc = "call"]
              /\ UNCHANGED snapshot
    /\ UNCHANGED <<running, job, extranonce1, extranonce2, shutdownClosed,
                   jobChannel, stoppers, callers, nextJob, enqueued, drained,
                   stopPanicked, startIgnored,
                   clientVars, sessionVars, lastShare, lastBatch, poolVars, hashVars, statsVars, hubVars, decoded>>

\* mineLoop calls w.onShareFound with the id and ntime of the job of the
\* batch, the extranonce2 read with it, the nonce and the difficulty.  The
\* field is read without w.mu: when SetShareCallback has made it nil since
\* the test, the call is made on the value tested or on nil, and panics
LoopShareCall(w, l) ==
    /\ loops[w][l].pc = "call"
    /\ \/ /\ lastShare' = [workerID |-> w,
                            jobID |-> Job(loops[w][l].j).ID,
                            extranonce2 |-> snapshot[w][l].e2,
                            ntime |-> Job(loops[w][l].j).NTime,
                            nonce |-> snapshot[w][l].nonce,
                            difficulty |-> snapshot[w][l].difficulty]
          /\ lastBatch' = [w |-> w, job |-> loops[w][l].j,
                            extranonce1 |-> snapshot[w][l].e1,
                            extranonce2 |-> snapshot[w][l].e2,
                            hashes |-> snapshot[w][l].hashes,
                            tried |-> Len(snapshot[w][l].hashes)]
          /\ loops' = [loops EXCEPT ![w][l] = [pc |-> AfterBatch(w, l), j |-> NoJob]]
       \/ /\ worker[w].onShareFound = "nil"
          /\ loops' = [loops EXCEPT ![w][l] = [pc |-> "panicked", j |-> NoJob]]
          /\ UNCHANGED <<lastShare, lastBatch>>
    /\ snapshot' = [snapshot EXCEPT ![w][l] = NoSnapshot]
    /\ UNCHANGED <<running, job, extranonce1, extranonce2, shutdownClosed,
                   jobChannel, stoppers, callers, nextJob, enqueued, drained,
                   stopPanicked, startIgnored,
                   clientVars, sessionVars, poolVars, hashVars, statsVars, hubVars, decoded>>

\* the throttle of mineLoop: the sleep is over, and the loop is at its select
LoopThrottle(w, l) ==
    /\ loops[w][l].pc = "throttle"
    /\ loops' = [loops EXCEPT ![w][l].pc = "select"]
    /\ UNCHANGED <<running, job, extranonce1, extranonce2, shutdownClosed,
                   jobChannel, stoppers, callers, nextJob, enqueued, drained,
                   stopPanicked, startIgnored,
                   clientVars, sessionVars, miningVars, poolVars, hashVars, statsVars, hubVars, decoded>>

\* Worker.GetHashCount: an atomic load of w.hashCount
GetHashCount(w) ==
    /\ seen' = [seen EXCEPT ![w] = hashCount[w]]
    /\ UNCHANGED <<hashCount, tried, hashed,
                   workerVars, clientVars, sessionVars, miningVars, poolVars, statsVars, hubVars, decoded>>

\* Worker.SetShareCallback: under w.mu, onShareFound is replaced
WorkerSetShareCallback(w, cb) ==
    /\ worker' = [worker EXCEPT ![w].onShareFound = cb]
    /\ UNCHANGED <<manager, workers, ops, added, removed, cfg,
                   workerVars, clientVars, sessionVars, miningVars, hashVars, statsVars, hubVars, decoded>>

\* Worker.SetCPUPercent: under w.mu, cpuPercent is replaced
WorkerSetCPUPercent(w, percent) ==
    /\ worker' = [worker EXCEPT ![w].cpuPercent = percent]
    /\ UNCHANGED <<manager, workers, ops, added, removed, cfg,
                   workerVars, clientVars, sessionVars, miningVars, hashVars, statsVars, hubVars, decoded>>

mineLoop(w, l) ==
    \/ LoopExit(w, l)
    \/ LoopReceive(w, l)
    \/ LoopAssign(w, l)
    \/ LoopDefault(w, l)
    \/ LoopReadJob(w, l)
    \/ LoopBatchPanic(w, l)
    \/ \E hashes \in Tried(HashSamples) : mineBatchHash(w, l, hashes)
    \/ mineBatchReturn(w, l)
    \/ LoopShareCheck(w, l)
    \/ LoopShareCall(w, l)
    \/ LoopThrottle(w, l)

(***************************************************************************)
(* stratum.Client.  A request is three steps: nextID (a lock section),     *)
(* the lock section of send that reads c.conn, and conn.Write.             *)
(***************************************************************************)

\* Client.IsConnected
IsConnected == client.conn # NilConn /\ client.running

\* Client.nextID: the id the next request gets
nextID == client.requestID + 1

\* conn.Write: it fails on a connection that was closed or has failed
Write(conn) == IF connState[conn] = "open" THEN "ok" ELSE "write error"

\* Client.send when nothing runs between its read of c.conn and its write:
\* "not connected" without a conn, otherwise the outcome of conn.Write
send == IF client.conn = NilConn THEN "not connected" ELSE Write(client.conn)

\* a request written to the connection reaches the pool, which will answer it
Written(conn, id, method) ==
    /\ wire' = Append(wire, [conn |-> conn, id |-> id, method |-> method])
    /\ inbox' = [inbox EXCEPT ![conn] = Append(@, [id |-> id, method |-> method])]

\* The dial of Client.Connect: a new connection, or an error
ConnectDial ==
    /\ starter.pc = "idle"
    /\ ~IsConnected
    /\ \E k \in ConnIDs :
          /\ connState[k] = "unused"
          /\ \A i \in ConnIDs : connState[i] = "unused" => k <= i
          /\ connState' = [connState EXCEPT ![k] = "open"]
          /\ starter' = [NoStarter EXCEPT !.pc = "dialed", !.conn = k]
    /\ UNCHANGED <<client, readLoops, inbox, poolStarted, wire, closePanicked,
                   closedSinceConnect, submitAfterClose, submits, stopping,
                   workerVars, sessionVars, miningVars, poolVars, hashVars, statsVars, hubVars, decoded>>

\* The rest of Client.Connect up to `go c.readLoop()`: install conn, reader,
\* running and a new shutdown channel under c.mu, then start the read loop
Connect ==
    /\ starter.pc = "dialed"
    /\ client' = [client EXCEPT !.conn = starter.conn, !.running = TRUE,
                                !.shutdownClosed = FALSE]
    /\ readLoops' = [readLoops EXCEPT ![starter.conn] =
                        [pc |-> "top", reader |-> NilConn]]
    /\ starter' = [starter EXCEPT !.pc = "connected"]
    /\ closedSinceConnect' = FALSE
    /\ submits' = [s \in Submitters |-> [submits[s] EXCEPT !.afterClose = FALSE]]
    /\ UNCHANGED <<connState, inbox, poolStarted, wire, closePanicked,
                   submitAfterClose, stopping,
                   workerVars, sessionVars, miningVars, poolVars, hashVars, statsVars, hubVars, decoded>>

\* Connect past the Unlock: `if c.onConnected != nil`; without the callback
\* Connect returns and the handler goes on to Subscribe
ConnectConnectedCheck ==
    /\ starter.pc = "connected"
    /\ starter' = [starter EXCEPT !.pc = IF handlers.onConnected = "nil"
                                           THEN "subscribe"
                                           ELSE "connectedCall"]
    /\ UNCHANGED <<client, connState, readLoops, inbox, poolStarted, wire,
                   closePanicked, closedSinceConnect, submitAfterClose,
                   submits, stopping,
                   workerVars, sessionVars, miningVars, poolVars, hashVars, statsVars, hubVars, decoded>>

\* c.onConnected(): the func the test has seen is called and Connect returns;
\* the field is read without the lock, so if it was set to nil since the
\* test, the call may also be one of a nil func: it panics, and net/http
\* ends the handler
ConnectConnected ==
    /\ starter.pc = "connectedCall"
    /\ \/ /\ callbacks' = Append(callbacks,
                   [cb |-> "onConnected", loop |-> NilConn, job |-> NoJob,
                    ok |-> FALSE])
          /\ starter' = [starter EXCEPT !.pc = "subscribe"]
       \/ /\ handlers.onConnected = "nil"
          /\ starter' = NoStarter
          /\ UNCHANGED callbacks
    /\ UNCHANGED <<client, connState, readLoops, inbox, poolStarted, wire,
                   closePanicked, closedSinceConnect, submitAfterClose,
                   submits, stopping,
                   handlers, currentJob, inHand, arrived, lines, lastHandled,
                   workerVars, miningVars, poolVars, hashVars, statsVars, hubVars, decoded>>


\* Client.Subscribe, called by handleMiningStart after Connect: c.nextID()
SubscribeNextID ==
    /\ starter.pc = "subscribe"
    /\ nextID <= MaxRequests
    /\ client' = [client EXCEPT !.requestID = nextID]
    /\ starter' = [starter EXCEPT !.pc = "subscribeSend", !.id = nextID]
    /\ UNCHANGED <<connState, readLoops, inbox, poolStarted, wire,
                   closePanicked, closedSinceConnect, submitAfterClose,
                   submits, stopping,
                   workerVars, sessionVars, miningVars, poolVars, hashVars, statsVars, hubVars, decoded>>

\* c.send(req), its lock section: c.conn is read; without a conn send
\* returns "not connected" and the handler ends
SubscribeSend ==
    /\ starter.pc = "subscribeSend"
    /\ starter' = IF client.conn = NilConn THEN NoStarter
                  ELSE [starter EXCEPT !.pc = "subscribeWrite",
                                       !.conn = client.conn]
    /\ UNCHANGED <<client, connState, readLoops, inbox, poolStarted, wire,
                   closePanicked, closedSinceConnect, submitAfterClose,
                   submits, stopping,
                   workerVars, sessionVars, miningVars, poolVars, hashVars, statsVars, hubVars, decoded>>

\* c.send(req), conn.Write outside the lock; an error ends the handler
SubscribeWrite ==
    /\ starter.pc = "subscribeWrite"
    /\ IF Write(starter.conn) = "ok"
         THEN /\ Written(starter.conn, starter.id, "mining.subscribe")
              /\ starter' = [starter EXCEPT !.pc = "authorize"]
         ELSE /\ starter' = NoStarter
              /\ UNCHANGED <<wire, inbox>>
    /\ UNCHANGED <<client, connState, readLoops, poolStarted, closePanicked,
                   closedSinceConnect, submitAfterClose, submits, stopping,
                   workerVars, sessionVars, miningVars, poolVars, hashVars, statsVars, hubVars, decoded>>

Subscribe ==
    \/ SubscribeNextID
    \/ SubscribeSend
    \/ SubscribeWrite

\* handleMiningStart after its first wait, GetWalletAddress returning wallet:
\* without a wallet the handler ends; otherwise Client.Authorize: c.nextID()
AuthorizeWith(wallet) ==
    /\ starter.pc = "authorize"
    /\ IF wallet = ""
         THEN /\ starter' = NoStarter
              /\ UNCHANGED client
         ELSE /\ nextID <= MaxRequests
              /\ client' = [client EXCEPT !.requestID = nextID]
              /\ starter' = [starter EXCEPT !.pc = "authorizeSend",
                                            !.id = nextID]
    /\ UNCHANGED <<connState, readLoops, inbox, poolStarted, wire,
                   closePanicked, closedSinceConnect, submitAfterClose,
                   submits, stopping,
                   workerVars, sessionVars, miningVars, poolVars, hashVars, statsVars, hubVars, decoded>>

\* the same with s.cfg.GetWalletAddress(), the configuration on record
AuthorizeNextID == AuthorizeWith(cfg.WalletAddress)

\* the same, the configuration being changed freely by PUT /config requests
\* that come before: the wallet read is any of those such a request gives
AuthorizeAnyWallet == \E wallet \in Wallets : AuthorizeWith(wallet)

\* c.send(req) of Authorize, its lock section
AuthorizeSend ==
    /\ starter.pc = "authorizeSend"
    /\ starter' = IF client.conn = NilConn THEN NoStarter
                  ELSE [starter EXCEPT !.pc = "authorizeWrite",
                                       !.conn = client.conn]
    /\ UNCHANGED <<client, connState, readLoops, inbox, poolStarted, wire,
                   closePanicked, closedSinceConnect, submitAfterClose,
                   submits, stopping,
                   workerVars, sessionVars, miningVars, poolVars, hashVars, statsVars, hubVars, decoded>>

\* c.send(req) of Authorize, conn.Write; past it the handler waits and goes
\* on to the set-up of the pool
AuthorizeWrite ==
    /\ starter.pc = "authorizeWrite"
    /\ IF Write(starter.conn) = "ok"
         THEN /\ Written(starter.conn, starter.id, "mining.authorize")
              /\ starter' = [starter EXCEPT !.pc = "setup"]
         ELSE /\ starter' = NoStarter
              /\ UNCHANGED <<wire, inbox>>
    /\ UNCHANGED <<client, connState, readLoops, poolStarted, closePanicked,
                   closedSinceConnect, submitAfterClose, submits, stopping,
                   workerVars, sessionVars, miningVars, poolVars, hashVars, statsVars, hubVars, decoded>>

Authorize ==
    \/ AuthorizeNextID
    \/ AuthorizeSend
    \/ AuthorizeWrite

\* handleMiningStart on a connected client goes straight to the pool set-up
StartConnected ==
    /\ starter.pc = "idle"
    /\ IsConnected
    /\ starter' = [NoStarter EXCEPT !.pc = "setup"]
    /\ UNCHANGED <<client, connState, readLoops, inbox, poolStarted, wire,
                   closePanicked, closedSinceConnect, submitAfterClose,
                   submits, stopping,
                   workerVars, sessionVars, miningVars, poolVars, hashVars, statsVars, hubVars, decoded>>

(***************************************************************************)
(* The set-up of the pool by handleMiningStart, one action per lock        *)
(* section or channel operation.  The Worker of pool id w is the worker w  *)
(* above: Start and Stop act on its goroutines and on the fields the       *)
(* Manager's calls read.                                                   *)
(***************************************************************************)

\* s.stratum.GetExtranonce1()
GetExtranonce1 ==
    /\ starter.pc = "setup"
    /\ starter' = [starter EXCEPT !.pc = "getSize", !.e1 = client.extranonce1]
    /\ UNCHANGED <<client, connState, readLoops, inbox, poolStarted, wire,
                   closePanicked, closedSinceConnect, submitAfterClose,
                   submits, stopping,
                   workerVars, sessionVars, miningVars, poolVars, hashVars, statsVars, hubVars, decoded>>

\* s.stratum.GetExtranonce2Size()
GetExtranonce2Size ==
    /\ starter.pc = "getSize"
    /\ starter' = [starter EXCEPT !.pc = "setData",
                                  !.size = client.extranonce2Size]
    /\ UNCHANGED <<client, connState, readLoops, inbox, poolStarted, wire,
                   closePanicked, closedSinceConnect, submitAfterClose,
                   submits, stopping,
                   workerVars, sessionVars, miningVars, poolVars, hashVars, statsVars, hubVars, decoded>>

\* s.manager.SetStratumData with the two values read
StartSetStratumData ==
    /\ starter.pc = "setData"
    /\ manager' = [manager EXCEPT !.extranonce1 = starter.e1,
                                  !.extranonce2Size = starter.size]
    /\ starter' = [starter EXCEPT !.pc = "count"]
    /\ UNCHANGED <<client, connState, readLoops, inbox, poolStarted, wire,
                   closePanicked, closedSinceConnect, submitAfterClose,
                   submits, stopping,
                   workers, worker, ops, added, removed, cfg,
                   workerVars, sessionVars, miningVars, hashVars, statsVars, hubVars, decoded>>

\* s.manager.WorkerCount() == 0: with no worker in the map the handler adds
\* GetNumWorkers() of them, one when the number is not positive
StartWorkerCount ==
    /\ starter.pc = "count"
    /\ starter' = IF workers = {}
                    THEN [starter EXCEPT
                             !.pc = "add",
                             !.n = IF cfg.NumWorkers <= 0 THEN 1
                                   ELSE cfg.NumWorkers]
                    ELSE [starter EXCEPT !.pc = "startAll"]
    /\ UNCHANGED <<client, connState, readLoops, inbox, poolStarted, wire,
                   closePanicked, closedSinceConnect, submitAfterClose,
                   submits, stopping,
                   workerVars, sessionVars, miningVars, poolVars, hashVars, statsVars, hubVars, decoded>>

\* s.manager.AddWorker(""), the lock section, as in AddWorkerLock
StartAddWorkerLock ==
    /\ starter.pc = "add"
    /\ manager.nextID \in WorkerIDs
    /\ LET id == manager.nextID
       IN  /\ manager' = [manager EXCEPT !.nextID = id + 1]
           /\ worker' = [worker EXCEPT ![id] =
                            [NewWorker(manager.cpuPercent) EXCEPT
                                !.onShareFound = manager.onShareFound]]
           /\ workers' = workers \cup {id}
           /\ starter' = [starter EXCEPT !.pc = "addStart", !.w = id,
                                         !.e1 = manager.extranonce1,
                                         !.size = manager.extranonce2Size]
    /\ UNCHANGED <<client, connState, readLoops, inbox, poolStarted, wire,
                   closePanicked, closedSinceConnect, submitAfterClose,
                   submits, stopping,
                   ops, added, removed, cfg,
                   workerVars, sessionVars, miningVars, hashVars, statsVars, hubVars, decoded>>

\* Worker.Start(e1, size) on the worker of pool id w: the fields the Manager
\* reads, and the worker's own; nothing changes when it runs already
StartWorker(w, e1, size) ==
    /\ worker' = [worker EXCEPT ![w] = WorkerStart(@, e1, size)]
    /\ IF running[w]
         THEN UNCHANGED <<running, extranonce1, extranonce2, loops>>
         ELSE StartBody(w, e1, size)

\* AddWorker past Unlock: Start if the extranonce1 read is not empty; then
\* the next AddWorker, or StartAll
StartAddWorkerStart ==
    /\ starter.pc = "addStart"
    /\ IF starter.e1 # ""
         THEN /\ StartWorker(starter.w, starter.e1, starter.size)
              /\ poolStarted' = TRUE
         ELSE UNCHANGED <<worker, running, extranonce1, extranonce2, loops,
                          poolStarted>>
    /\ added' = Append(added, starter.w)
    /\ starter' = [starter EXCEPT
                      !.pc = IF starter.n > 1 THEN "add" ELSE "startAll",
                      !.n = starter.n - 1, !.w = 0]
    /\ UNCHANGED <<client, connState, readLoops, inbox, wire,
                   closePanicked, closedSinceConnect, submitAfterClose,
                   submits, stopping,
                   manager, workers, ops, removed, cfg,
                   job, shutdownClosed, jobChannel, stoppers, callers, nextJob,
                   enqueued, drained, stopPanicked, startIgnored,
                   sessionVars, miningVars, hashVars, statsVars, hubVars, decoded>>

\* s.manager.StartAll(), the lock section, as in StartAllLock
StartStartAllLock ==
    /\ starter.pc = "startAll"
    /\ starter' = [starter EXCEPT !.pc = "startEach", !.ws = workers,
                                  !.e1 = manager.extranonce1,
                                  !.size = manager.extranonce2Size]
    /\ UNCHANGED <<client, connState, readLoops, inbox, poolStarted, wire,
                   closePanicked, closedSinceConnect, submitAfterClose,
                   submits, stopping,
                   workerVars, sessionVars, miningVars, poolVars, hashVars, statsVars, hubVars, decoded>>

\* StartAll on one worker of its snapshot: Start unless IsRunning (Start
\* looks at running again under w.mu, so the two lock sections act as one)
StartStartAllStep ==
    /\ starter.pc = "startEach"
    /\ starter.ws # {}
    /\ \E w \in starter.ws :
          /\ StartWorker(w, starter.e1, starter.size)
          /\ starter' = [starter EXCEPT !.ws = starter.ws \ {w}]
    /\ poolStarted' = TRUE
    /\ UNCHANGED <<client, connState, readLoops, inbox, wire,
                   closePanicked, closedSinceConnect, submitAfterClose,
                   submits, stopping,
                   manager, workers, ops, added, removed, cfg,
                   job, shutdownClosed, jobChannel, stoppers, callers, nextJob,
                   enqueued, drained, stopPanicked, startIgnored,
                   sessionVars, miningVars, hashVars, statsVars, hubVars, decoded>>

\* s.stratum.GetCurrentJob(): without a job the handler answers "started"
StartGetCurrentJob ==
    /\ starter.pc = "startEach"
    /\ starter.ws = {}
    /\ starter' = IF currentJob = NoJob THEN NoStarter
                  ELSE [starter EXCEPT !.pc = "broadcast", !.job = currentJob]
    /\ UNCHANGED <<client, connState, readLoops, inbox, poolStarted, wire,
                   closePanicked, closedSinceConnect, submitAfterClose,
                   submits, stopping,
                   workerVars, sessionVars, miningVars, poolVars, hashVars, statsVars, hubVars, decoded>>

\* s.manager.BroadcastJob(job): GetAllWorkers
StartBroadcastJob ==
    /\ starter.pc = "broadcast"
    /\ \A w \in workers : Len(enqueued[w]) < MaxJobs
    /\ starter' = [starter EXCEPT !.pc = "update", !.ws = workers]
    /\ UNCHANGED <<client, connState, readLoops, inbox, poolStarted, wire,
                   closePanicked, closedSinceConnect, submitAfterClose,
                   submits, stopping,
                   workerVars, sessionVars, miningVars, poolVars, hashVars, statsVars, hubVars, decoded>>

\* BroadcastJob on one worker of its snapshot: the first select of UpdateJob
\* by the handler (the caller "rest"); with a full mailbox the call goes on
\* as in UpdateJobDrop and UpdateJobSend
StartUpdateJob ==
    /\ starter.pc = "update"
    /\ callers["rest"].pc = "idle"
    /\ \E w \in starter.ws :
          /\ IF Len(jobChannel[w]) < JobChannelCap
               THEN /\ Enqueue(w, starter.job)
                    /\ UNCHANGED callers
               ELSE /\ callers' = [callers EXCEPT !["rest"] =
                                      [pc |-> "drop", w |-> w, j |-> starter.job]]
                    /\ UNCHANGED <<jobChannel, enqueued>>
          /\ starter' = [starter EXCEPT !.ws = starter.ws \ {w}]
    /\ UNCHANGED <<client, connState, readLoops, inbox, poolStarted, wire,
                   closePanicked, closedSinceConnect, submitAfterClose,
                   submits, stopping,
                   running, job, extranonce1, extranonce2, shutdownClosed,
                   loops, stoppers, nextJob, drained, stopPanicked,
                   startIgnored,
                   sessionVars, miningVars, poolVars, hashVars, statsVars, hubVars, decoded>>

\* BroadcastJob has returned: the handler answers "started"
StartReturn ==
    /\ starter.pc = "update"
    /\ starter.ws = {}
    /\ callers["rest"].pc = "idle"
    /\ starter' = NoStarter
    /\ UNCHANGED <<client, connState, readLoops, inbox, poolStarted, wire,
                   closePanicked, closedSinceConnect, submitAfterClose,
                   submits, stopping,
                   workerVars, sessionVars, miningVars, poolVars, hashVars, statsVars, hubVars, decoded>>

\* The end of handleMiningStart up to StartAll: SetStratumData with the
\* client's extranonce data, AddWorker when the pool is empty, StartAll
StartPool ==
    \/ GetExtranonce1
    \/ GetExtranonce2Size
    \/ StartSetStratumData
    \/ StartWorkerCount
    \/ StartAddWorkerLock
    \/ StartAddWorkerStart
    \/ StartStartAllLock
    \/ StartStartAllStep
    \/ StartGetCurrentJob

\* and the broadcast of the client's current job
StartBroadcast ==
    \/ StartBroadcastJob
    \/ StartUpdateJob
    \/ StartReturn

(***************************************************************************)
(* Client.Submit, called with every share a worker reports, by the         *)
(* goroutine that found it                                                 *)
(***************************************************************************)

\* what a Submit that returns leaves on record: its outcome, when it was
\* called after a Close and no Connect has succeeded since
Returned(s, outcome) ==
    IF submits[s].afterClose /\ closedSinceConnect /\ submitAfterClose # "ok"
      THEN outcome
      ELSE submitAfterClose

\* c.nextID()
SubmitNextID(s) ==
    /\ submits[s].pc = "idle"
    /\ nextID <= MaxRequests
    /\ client' = [client EXCEPT !.requestID = nextID]
    /\ submits' = [submits EXCEPT ![s] =
                      [pc |-> "send", id |-> nextID, conn |-> NilConn,
                       afterClose |-> closedSinceConnect]]
    /\ UNCHANGED <<connState, readLoops, inbox, starter, poolStarted, wire,
                   closePanicked, closedSinceConnect, submitAfterClose,
                   stopping,
                   workerVars, sessionVars, miningVars, poolVars, hashVars, statsVars, hubVars, decoded>>

\* c.send(req), its lock section: c.conn is read; without a conn Submit
\* returns "not connected"
SubmitSend(s) ==
    /\ submits[s].pc = "send"
    /\ IF client.conn = NilConn
         THEN /\ submits' = [submits EXCEPT ![s] = NoSubmit]
              /\ submitAfterClose' = Returned(s, "error")
         ELSE /\ submits' = [submits EXCEPT ![s].pc = "write",
                                            ![s].conn = client.conn]
              /\ UNCHANGED submitAfterClose
    /\ UNCHANGED <<client, connState, readLoops, inbox, starter, poolStarted,
                   wire, closePanicked, closedSinceConnect, stopping,
                   workerVars, sessionVars, miningVars, poolVars, hashVars, statsVars, hubVars, decoded>>

\* c.send(req), conn.Write outside the lock, and the return of Submit
SubmitWrite(s) ==
    /\ submits[s].pc = "write"
    /\ IF Write(submits[s].conn) = "ok"
         THEN /\ Written(submits[s].conn, submits[s].id, "mining.submit")
              /\ submitAfterClose' = Returned(s, "ok")
         ELSE /\ submitAfterClose' = Returned(s, "error")
              /\ UNCHANGED <<wire, inbox>>
    /\ submits' = [submits EXCEPT ![s] = NoSubmit]
    /\ UNCHANGED <<client, connState, readLoops, starter, poolStarted,
                   closePanicked, closedSinceConnect, stopping,
                   workerVars, sessionVars, miningVars, poolVars, hashVars, statsVars, hubVars, decoded>>

Submit(s) ==
    \/ SubmitNextID(s)
    \/ SubmitSend(s)
    \/ SubmitWrite(s)

(***************************************************************************)
(* Client.Close: one lock section (the Unlock is deferred)                 *)
(***************************************************************************)

\* a Close that clears running and closes c.shutdown but leaves the socket open
CloseKeepsConn ==
    /\ ~client.shutdownClosed
    /\ client' = [client EXCEPT !.running = FALSE, !.shutdownClosed = TRUE]
    /\ closedSinceConnect' = TRUE
    /\ UNCHANGED <<connState, inbox, closePanicked>>

\* Client.Close on an open shutdown channel: clear running, close(c.shutdown),
\* close the connection if there is one; the pool answers nothing more on it
CloseOpen ==
    /\ ~client.shutdownClosed
    /\ client' = [client EXCEPT !.running = FALSE, !.shutdownClosed = TRUE]
    /\ connState' = IF client.conn = NilConn THEN connState
                    ELSE [connState EXCEPT ![client.conn] = "closed"]
    /\ inbox' = IF client.conn = NilConn THEN inbox
                ELSE [inbox EXCEPT ![client.conn] = <<>>]
    /\ closedSinceConnect' = TRUE
    /\ UNCHANGED closePanicked

\* Client.Close when c.shutdown is already closed: running is cleared, then
\* close(c.shutdown) panics; the deferred Unlock runs, conn.Close is not reached
CloseClosed ==
    /\ client.shutdownClosed
    /\ client' = [client EXCEPT !.running = FALSE]
    /\ closePanicked' = TRUE
    /\ UNCHANGED <<connState, inbox, closedSinceConnect>>

Close ==
    \/ CloseOpen
    \/ CloseClosed

\* The connection fails (reset by the pool, network error); nothing more is
\* answered on it
ConnFail(k) ==
    /\ connState[k] = "open"
    /\ connState' = [connState EXCEPT ![k] = "broken"]
    /\ inbox' = [inbox EXCEPT ![k] = <<>>]
    /\ UNCHANGED <<client, readLoops, starter, poolStarted, wire,
                   closePanicked, closedSinceConnect, submitAfterClose,
                   submits, stopping,
                   workerVars, sessionVars, miningVars, poolVars, hashVars, statsVars, hubVars, decoded>>

(***************************************************************************)
(* Client.readLoop.  The lock sections of the loop and of the handlers it  *)
(* calls are actions of their own; a callback is invoked past the Unlock.  *)
(***************************************************************************)

\* What the call of callback cb by read loop l, handling line m, adds to the
\* history
Invocation(cb, l, m) ==
    [cb |-> cb, loop |-> l,
     job |-> IF cb = "onJobReceived" THEN m.job ELSE NoJob,
     ok |-> IF cb = "onSubscribed" THEN TRUE
            ELSE IF cb = "onAuthorized" THEN m.r.ok
            ELSE FALSE]


\* Top of the loop: leave if c.shutdown is closed; otherwise go on to read
\* the reader and running
ReadLoopSelect(l) ==
    /\ readLoops[l].pc = "top"
    /\ readLoops' = [readLoops EXCEPT ![l] =
          IF client.shutdownClosed THEN NoReadLoop
                                   ELSE [pc |-> "check", reader |-> NilConn]]
    /\ UNCHANGED <<client, connState, inbox, starter, poolStarted, wire,
                   closePanicked, closedSinceConnect, submitAfterClose,
                   submits, stopping,
                   workerVars, sessionVars, miningVars, poolVars, hashVars, statsVars, hubVars, decoded>>

\* The lock section that reads c.reader and c.running: leave if running is
\* false or there is no reader; otherwise block in ReadString on that reader
ReadLoopTop(l) ==
    /\ readLoops[l].pc = "check"
    /\ readLoops' = [readLoops EXCEPT ![l] =
          IF ~client.running \/ client.conn = NilConn
            THEN NoReadLoop
            ELSE [pc |-> "reading", reader |-> client.conn]]
    /\ UNCHANGED <<client, connState, inbox, starter, poolStarted, wire,
                   closePanicked, closedSinceConnect, submitAfterClose,
                   submits, stopping,
                   workerVars, sessionVars, miningVars, poolVars, hashVars, statsVars, hubVars, decoded>>

\* a read failure that clears running only
ReadLoopErrorKeepsFlags(l) ==
    /\ readLoops[l].pc = "reading"
    /\ connState[readLoops[l].reader] \in {"closed", "broken"}
    /\ client' = [client EXCEPT !.running = FALSE]
    /\ readLoops' = [readLoops EXCEPT ![l].pc = "disconnected"]
    /\ UNCHANGED <<connState, inbox, starter, poolStarted, wire, closePanicked,
                   closedSinceConnect, submitAfterClose, submits, stopping,
                   workerVars, sessionVars, miningVars, poolVars, hashVars, statsVars, hubVars, decoded>>


\* ReadString fails: the lock section clears running, subscribed and
\* authorized
ReadLoopError(l) ==
    /\ readLoops[l].pc = "reading"
    /\ connState[readLoops[l].reader] \in {"closed", "broken"}
    /\ client' = [client EXCEPT !.running = FALSE, !.subscribed = FALSE,
                                !.authorized = FALSE]
    /\ readLoops' = [readLoops EXCEPT ![l].pc = "disconnected"]
    /\ UNCHANGED <<connState, inbox, starter, poolStarted, wire, closePanicked,
                   closedSinceConnect, submitAfterClose, submits, stopping,
                   workerVars, sessionVars, miningVars, poolVars, hashVars, statsVars, hubVars, decoded>>


\* past the Unlock: `if c.onDisconnected != nil`; without the callback the
\* loop leaves
ReadLoopDisconnectedCheck(l) ==
    /\ readLoops[l].pc = "disconnected"
    /\ readLoops' = [readLoops EXCEPT ![l] =
          IF handlers.onDisconnected = "nil"
            THEN NoReadLoop
            ELSE [@ EXCEPT !.pc = "disconnectedCall"]]
    /\ UNCHANGED <<client, connState, inbox, starter, poolStarted, wire,
                   closePanicked, closedSinceConnect, submitAfterClose,
                   submits, stopping,
                   workerVars, sessionVars, miningVars, poolVars, hashVars, statsVars, hubVars, decoded>>

\* c.onDisconnected(err), and the loop leaves.  The field is read without
\* the lock: if it was set to nil since the test, the call may also be one
\* of a nil func, and the goroutine panics.
ReadLoopDisconnected(l) ==
    /\ readLoops[l].pc = "disconnectedCall"
    /\ \/ /\ callbacks' = Append(callbacks,
                                 Invocation("onDisconnected", l, NoLine))
          /\ readLoops' = [readLoops EXCEPT ![l] = NoReadLoop]
       \/ /\ handlers.onDisconnected = "nil"
          /\ readLoops' = [readLoops EXCEPT ![l].pc = "panicked"]
          /\ UNCHANGED callbacks
    /\ UNCHANGED <<client, connState, inbox, starter, poolStarted, wire,
                   closePanicked, closedSinceConnect, submitAfterClose,
                   submits, stopping,
                   handlers, currentJob, inHand, arrived, lines,
                   lastHandled,
                   workerVars, miningVars, poolVars, hashVars, statsVars, hubVars, decoded>>


\* What the pool may answer to a request
Results(method) ==
    IF method = "mining.subscribe"
      THEN {[error |-> FALSE, array |-> TRUE, absent |-> FALSE,
             e1 |-> "81000001", size |-> 4, ok |-> FALSE],
            [error |-> TRUE, array |-> FALSE, absent |-> FALSE,
             e1 |-> "", size |-> 0, ok |-> FALSE]}
      ELSE {[error |-> FALSE, array |-> FALSE, absent |-> FALSE,
             e1 |-> "", size |-> 0, ok |-> TRUE],
            [error |-> FALSE, array |-> FALSE, absent |-> FALSE,
             e1 |-> "", size |-> 0, ok |-> FALSE],
            [error |-> TRUE, array |-> FALSE, absent |-> FALSE,
             e1 |-> "", size |-> 0, ok |-> FALSE]}

\* handleResponse without the check of the error field
handleResponseIgnoringError(id, r) ==
    IF id = 1 /\ r.array /\ ~r.absent
      THEN [client EXCEPT !.extranonce1 = r.e1, !.extranonce2Size = r.size,
                          !.subscribed = TRUE]
    ELSE IF id = 2 /\ ~r.array /\ ~r.absent
      THEN [client EXCEPT !.authorized = r.ok]
    ELSE client

\* Client.handleResponse, its lock section: the Client after a response
\* with this id and result.  A result that is missing or is not of the
\* expected JSON type fails to unmarshal and changes nothing.
handleResponse(id, r) ==
    IF r.error THEN client
    ELSE IF id = 1 /\ r.array /\ ~r.absent
      THEN [client EXCEPT !.extranonce1 = r.e1, !.extranonce2Size = r.size,
                          !.subscribed = TRUE]
    ELSE IF id = 2 /\ ~r.array /\ ~r.absent
      THEN [client EXCEPT !.authorized = r.ok]
    ELSE client

\* The callback handleResponse goes on to test past the Unlock ("": none)
responseCallback(id, r) ==
    IF r.error THEN ""
    ELSE IF id = 1 /\ r.array /\ ~r.absent THEN "onSubscribed"
    ELSE IF id = 2 /\ ~r.array /\ ~r.absent THEN "onAuthorized"
    ELSE ""


(***************************************************************************)
(* Lines the pool sends, and Client.handleMessage                          *)
(***************************************************************************)

\* a line that unmarshals: its id (0 when absent), method ("" when absent),
\* the number of params, the job a mining.notify describes, and its result
Line(id, method, nparams, j, r) ==
    [valid |-> TRUE, id |-> id, method |-> method, nparams |-> nparams,
     job |-> j, r |-> r]

\* ReadString returns the pool's answer to the oldest unanswered request
ReadLoopResponse(l) ==
    /\ readLoops[l].pc = "reading"
    /\ connState[readLoops[l].reader] = "open"
    /\ inbox[readLoops[l].reader] # <<>>
    /\ LET req == Head(inbox[readLoops[l].reader])
       IN  \E r \in Results(req.method) :
              inHand' = [inHand EXCEPT ![l] = Line(req.id, "", 0, NoJob, r)]
    /\ inbox' = [inbox EXCEPT ![readLoops[l].reader] = Tail(@)]
    /\ readLoops' = [readLoops EXCEPT ![l].pc = "handle"]
    /\ UNCHANGED <<client, connState, starter, poolStarted, wire,
                   closePanicked, closedSinceConnect, submitAfterClose,
                   submits, stopping,
                   handlers, currentJob, callbacks, arrived, lines,
                   lastHandled,
                   workerVars, miningVars, poolVars, hashVars, statsVars, hubVars, decoded>>

\* The lines the pool may send on its own when n lines came before:
\* notifications (a full mining.notify for a new job, a short one,
\* mining.set_difficulty, another method), responses with the subscribe, the
\* authorize or another id, a line with both an id and a method, and a line
\* that is not JSON
PoolLines(n) ==
    {Line(0, "mining.notify", NotifyParams, n + 1, NoResult),
     Line(0, "mining.notify", NotifyParams - 1, n + 1, NoResult),
     Line(0, "mining.set_difficulty", 1, NoJob, NoResult),
     Line(0, "client.show_message", 1, NoJob, NoResult),
     Line(3, "mining.notify", NotifyParams, n + 1, NoResult),
     Line(3, "", 0, NoJob, NoResult),
     NoLine}
    \cup {Line(1, "", 0, NoJob, r) : r \in Results("mining.subscribe")}
    \cup {Line(2, "", 0, NoJob, r) : r \in Results("mining.authorize")}

\* a mining.notify notification (no id) with all its params
WellFormedNotify(m) ==
    m.valid /\ m.id = 0 /\ m.method = "mining.notify" /\ m.nparams >= NotifyParams

\* the lines of a pool that sends jobs and accepts the subscription and the
\* authorization
AcceptingPoolLines(n) ==
    {m \in PoolLines(n) : \/ WellFormedNotify(m)
                          \/ (m.id = 1 /\ m.r.array)
                          \/ (m.id = 2 /\ m.r.ok)}

\* ReadString returns line m, which the pool sent on its own
ReadLoopRead(l, m) ==
    /\ readLoops[l].pc = "reading"
    /\ connState[readLoops[l].reader] = "open"
    /\ lines < MaxLines
    /\ lines' = lines + 1
    /\ inHand' = [inHand EXCEPT ![l] = m]
    /\ arrived' = IF WellFormedNotify(m) THEN Append(arrived, m.job)
                  ELSE arrived
    /\ readLoops' = [readLoops EXCEPT ![l].pc = "handle"]
    /\ UNCHANGED <<client, connState, inbox, starter, poolStarted, wire,
                   closePanicked, closedSinceConnect, submitAfterClose,
                   submits, stopping,
                   handlers, currentJob, callbacks, lastHandled,
                   workerVars, miningVars, poolVars, hashVars, statsVars, hubVars, decoded>>

\* handleMiningNotify without the check of the number of params
handleMiningNotifyAnyLength(m) ==
    currentJob' = m.job

\* Client.handleMiningNotify up to its Unlock: fewer than 9 params are
\* dropped; otherwise the job replaces currentJob
handleMiningNotify(m) ==
    IF m.nparams < NotifyParams
      THEN UNCHANGED currentJob
      ELSE currentJob' = m.job

\* Client.handleNotification: mining.notify is handled, mining.set_difficulty
\* and any other method are not
handleNotification(m) ==
    IF m.method = "mining.notify"
      THEN handleMiningNotify(m)
      ELSE UNCHANGED currentJob

\* Client.handleMessage up to the Unlock of the handler it calls: a line that
\* unmarshals with a nonzero id goes to handleResponse; otherwise one with a
\* method goes to handleNotification; any other line is ignored
handleMessage(m) ==
    IF m.valid /\ m.id # 0
      THEN /\ client' = handleResponse(m.id, m.r)
           /\ UNCHANGED currentJob
    ELSE IF m.valid /\ m.method # ""
      THEN /\ handleNotification(m)
           /\ UNCHANGED client
    ELSE UNCHANGED <<client, currentJob>>

\* The callback the handler of line m goes on to test past its Unlock:
\* onSubscribed or onAuthorized for a response stored, onJobReceived for a
\* job stored ("": the handler has returned before)
Callback(m) ==
    IF m.valid /\ m.id # 0
      THEN responseCallback(m.id, m.r)
    ELSE IF m.valid /\ m.method = "mining.notify" /\ m.nparams >= NotifyParams
      THEN "onJobReceived"
    ELSE ""


\* the read loop passes the line to handleMessage, which runs up to the
\* Unlock of its handler; a handler that has returned before has no callback
\* to test: handleMessage returns, and the read loop loops
ReadLoopHandle(l) ==
    /\ readLoops[l].pc = "handle"
    /\ handleMessage(inHand[l])
    /\ IF Callback(inHand[l]) = ""
         THEN /\ inHand' = [inHand EXCEPT ![l] = NoLine]
              /\ lastHandled' = inHand[l]
              /\ readLoops' = [readLoops EXCEPT ![l].pc = "top"]
         ELSE /\ readLoops' = [readLoops EXCEPT ![l].pc = "callback"]
              /\ UNCHANGED <<inHand, lastHandled>>
    /\ UNCHANGED <<connState, inbox, starter, poolStarted, wire,
                   closePanicked, closedSinceConnect, submitAfterClose,
                   submits, stopping,
                   handlers, callbacks, arrived, lines,
                   workerVars, miningVars, poolVars, hashVars, statsVars, hubVars, decoded>>


\* past the Unlock, the handler tests its callback: `if c.onSubscribed !=
\* nil`, `if c.onAuthorized != nil`, `if c.onJobReceived != nil`; without
\* the callback handleMessage returns and the read loop loops
ReadLoopCallbackCheck(l) ==
    /\ readLoops[l].pc = "callback"
    /\ IF handlers[Callback(inHand[l])] = "nil"
         THEN /\ inHand' = [inHand EXCEPT ![l] = NoLine]
              /\ lastHandled' = inHand[l]
              /\ readLoops' = [readLoops EXCEPT ![l].pc = "top"]
         ELSE /\ readLoops' = [readLoops EXCEPT ![l].pc = "call"]
              /\ UNCHANGED <<inHand, lastHandled>>
    /\ UNCHANGED <<client, connState, inbox, starter, poolStarted, wire,
                   closePanicked, closedSinceConnect, submitAfterClose,
                   submits, stopping,
                   handlers, currentJob, callbacks, arrived, lines,
                   workerVars, miningVars, poolVars, hashVars, statsVars, hubVars, decoded>>

\* the handler calls its callback; handleMessage returns and the read loop
\* loops.  The field is read without the lock: if it was set to nil since
\* the test, the call may also be one of a nil func, and the goroutine
\* panics.
ReadLoopCallback(l) ==
    /\ readLoops[l].pc = "call"
    /\ \/ /\ callbacks' = Append(callbacks,
                   Invocation(Callback(inHand[l]), l, inHand[l]))
          /\ inHand' = [inHand EXCEPT ![l] = NoLine]
          /\ lastHandled' = inHand[l]
          /\ readLoops' = [readLoops EXCEPT ![l].pc = "top"]
       \/ /\ handlers[Callback(inHand[l])] = "nil"
          /\ readLoops' = [readLoops EXCEPT ![l].pc = "panicked"]
          /\ UNCHANGED <<callbacks, inHand, lastHandled>>
    /\ UNCHANGED <<client, connState, inbox, starter, poolStarted, wire,
                   closePanicked, closedSinceConnect, submitAfterClose,
                   submits, stopping,
                   handlers, currentJob, arrived, lines,
                   workerVars, miningVars, poolVars, hashVars, statsVars, hubVars, decoded>>


\* Client.SetJobCallback, SetConnectedCallback, SetDisconnectedCallback,
\* SetSubscribedCallback and SetAuthorizedCallback: under c.mu, the field is
\* replaced
SetJobCallback(cb) ==
    /\ handlers' = [handlers EXCEPT !.onJobReceived = cb]
    /\ UNCHANGED <<currentJob, inHand, callbacks, arrived, lines, lastHandled,
                   clientVars, workerVars, miningVars, poolVars, hashVars, statsVars, hubVars, decoded>>

SetConnectedCallback(cb) ==
    /\ handlers' = [handlers EXCEPT !.onConnected = cb]
    /\ UNCHANGED <<currentJob, inHand, callbacks, arrived, lines, lastHandled,
                   clientVars, workerVars, miningVars, poolVars, hashVars, statsVars, hubVars, decoded>>

SetDisconnectedCallback(cb) ==
    /\ handlers' = [handlers EXCEPT !.onDisconnected = cb]
    /\ UNCHANGED <<currentJob, inHand, callbacks, arrived, lines, lastHandled,
                   clientVars, workerVars, miningVars, poolVars, hashVars, statsVars, hubVars, decoded>>

SetSubscribedCallback(cb) ==
    /\ handlers' = [handlers EXCEPT !.onSubscribed = cb]
    /\ UNCHANGED <<currentJob, inHand, callbacks, arrived, lines, lastHandled,
                   clientVars, workerVars, miningVars, poolVars, hashVars, statsVars, hubVars, decoded>>

SetAuthorizedCallback(cb) ==
    /\ handlers' = [handlers EXCEPT !.onAuthorized = cb]
    /\ UNCHANGED <<currentJob, inHand, callbacks, arrived, lines, lastHandled,
                   clientVars, workerVars, miningVars, poolVars, hashVars, statsVars, hubVars, decoded>>


readLoop(l) ==
    \/ ReadLoopSelect(l)
    \/ ReadLoopTop(l)
    \/ ReadLoopError(l)
    \/ ReadLoopDisconnectedCheck(l)
    \/ ReadLoopDisconnected(l)
    \/ ReadLoopResponse(l)
    \/ \E m \in PoolLines(lines) : ReadLoopRead(l, m)
    \/ ReadLoopHandle(l)
    \/ ReadLoopCallbackCheck(l)
    \/ ReadLoopCallback(l)

handleMiningStart ==
    \/ ConnectDial
    \/ Connect
    \/ ConnectConnectedCheck
    \/ ConnectConnected
    \/ Subscribe
    \/ Authorize
    \/ StartConnected
    \/ StartPool
    \/ StartBroadcast

(***************************************************************************)
(* handleMiningStop: Manager.StopAll, then Client.Close.  net/http         *)
(* recovers a panic of the handler.                                        *)
(***************************************************************************)

\* the handler goes on to the next worker of the snapshot, or to Close
StopNext(ws) ==
    [pc |-> IF ws = {} THEN "close" ELSE "stopEach", w |-> 0, ws |-> ws]

\* StopAll: GetAllWorkers
StopGetAllWorkers ==
    /\ stopping.pc = "idle"
    /\ stopping' = StopNext(workers)
    /\ UNCHANGED <<client, connState, readLoops, inbox, starter, poolStarted,
                   wire, closePanicked, closedSinceConnect, submitAfterClose,
                   submits,
                   workerVars, sessionVars, miningVars, poolVars, hashVars, statsVars, hubVars, decoded>>

\* Worker.Stop on one worker of the snapshot, the lock section: return if it
\* does not run, else clear running
StopWorker ==
    /\ stopping.pc = "stopEach"
    /\ \E w \in stopping.ws :
          IF running[w]
            THEN /\ running' = [running EXCEPT ![w] = FALSE]
                 /\ worker' = [worker EXCEPT ![w] = WorkerStop(@)]
                 /\ stopping' = [stopping EXCEPT !.pc = "closeShutdown",
                                                 !.w = w]
            ELSE /\ stopping' = StopNext(stopping.ws \ {w})
                 /\ UNCHANGED <<running, worker>>
    /\ UNCHANGED <<client, connState, readLoops, inbox, starter, poolStarted,
                   wire, closePanicked, closedSinceConnect, submitAfterClose,
                   submits,
                   manager, workers, ops, added, removed, cfg,
                   job, extranonce1, extranonce2, shutdownClosed, jobChannel,
                   loops, stoppers, callers, nextJob, enqueued, drained,
                   stopPanicked, startIgnored,
                   sessionVars, miningVars, hashVars, statsVars, hubVars, decoded>>

\* Worker.Stop past the Unlock: close(w.shutdown).  On a channel already
\* closed it panics, and the handler ends without calling Close
StopWorkerClose ==
    /\ stopping.pc = "closeShutdown"
    /\ LET w == stopping.w
       IN  IF shutdownClosed[w]
             THEN /\ stopPanicked' = [stopPanicked EXCEPT ![w] = TRUE]
                  /\ stopping' = NoStopping
                  /\ UNCHANGED <<shutdownClosed, worker>>
             ELSE /\ shutdownClosed' = [shutdownClosed EXCEPT ![w] = TRUE]
                  /\ worker' = [worker EXCEPT ![w] = WorkerClose(@)]
                  /\ stopping' = StopNext(stopping.ws \ {w})
                  /\ UNCHANGED stopPanicked
    /\ UNCHANGED <<client, connState, readLoops, inbox, starter, poolStarted,
                   wire, closePanicked, closedSinceConnect, submitAfterClose,
                   submits,
                   manager, workers, ops, added, removed, cfg,
                   running, job, extranonce1, extranonce2, jobChannel,
                   loops, stoppers, callers, nextJob, enqueued, drained,
                   startIgnored,
                   sessionVars, miningVars, hashVars, statsVars, hubVars, decoded>>

\* StopAll has returned: s.stratum.Close(), and the handler answers
StopThenClose ==
    /\ stopping.pc = "close"
    /\ Close
    /\ stopping' = NoStopping
    /\ UNCHANGED <<readLoops, starter, poolStarted, wire, submitAfterClose,
                   submits,
                   workerVars, sessionVars, miningVars, poolVars, hashVars, statsVars, hubVars, decoded>>

handleMiningStop ==
    \/ StopGetAllWorkers
    \/ StopWorker
    \/ StopWorkerClose
    \/ StopThenClose

(***************************************************************************)
(* miner.Manager.  A call is one action per lock section; the calls on the *)
(* workers of a snapshot are made one worker at a time, in any order (map  *)
(* iteration), and the call returns with the last of them.                 *)
(***************************************************************************)

\* the call of goroutine c goes on with the workers ws, or returns
Continue(c, ws) ==
    IF ws = {} THEN NoOp ELSE [ops[c] EXCEPT !.ws = ws]

SetShareCallback(cb) ==
    /\ manager' = [manager EXCEPT !.onShareFound = cb]
    /\ UNCHANGED <<workers, worker, ops, added, removed,
                   cfg, workerVars, clientVars, sessionVars, miningVars, hashVars, statsVars, hubVars, decoded>>

SetStratumData(e1, size) ==
    /\ manager' = [manager EXCEPT !.extranonce1 = e1, !.extranonce2Size = size]
    /\ UNCHANGED <<workers, worker, ops, added, removed,
                   cfg, workerVars, clientVars, sessionVars, miningVars, hashVars, statsVars, hubVars, decoded>>

\* AddWorker handing out the lowest id that is not in the map
AddWorkerLockLowestFree(c, limit) ==
    /\ ops[c].op = "idle"
    /\ PoolIDs \ workers # {}
    /\ LET id == CHOOSE i \in PoolIDs \ workers :
                     \A k \in PoolIDs \ workers : i <= k
       IN  /\ worker' = [worker EXCEPT ![id] =
                            [NewWorker(manager.cpuPercent) EXCEPT
                                !.onShareFound = manager.onShareFound]]
           /\ workers' = workers \cup {id}
           /\ ops' = [ops EXCEPT ![c] =
                         [NoOp EXCEPT !.op = "add", !.w = id,
                                      !.e1 = manager.extranonce1,
                                      !.size = manager.extranonce2Size]]
    /\ UNCHANGED <<manager, added, removed,
                   cfg, workerVars, clientVars, sessionVars, miningVars, hashVars, statsVars, hubVars, decoded>>

\* AddWorker, the lock section: the id, NewWorker, SetShareCallback, the map
\* entry, and the stratum data read for Start
AddWorkerLock(c, limit) ==
    /\ ops[c].op = "idle"
    /\ manager.nextID <= limit
    /\ LET id == manager.nextID
       IN  /\ manager' = [manager EXCEPT !.nextID = id + 1]
           /\ worker' = [worker EXCEPT ![id] =
                            [NewWorker(manager.cpuPercent) EXCEPT
                                !.onShareFound = manager.onShareFound]]
           /\ workers' = workers \cup {id}
           /\ ops' = [ops EXCEPT ![c] =
                         [NoOp EXCEPT !.op = "add", !.w = id,
                                      !.e1 = manager.extranonce1,
                                      !.size = manager.extranonce2Size]]
    /\ UNCHANGED <<added, removed,
                   cfg, workerVars, clientVars, sessionVars, miningVars, hashVars, statsVars, hubVars, decoded>>

\* AddWorker calling Start whatever the extranonce1
AddWorkerStartAlways(c) ==
    /\ ops[c].op = "add"
    /\ worker' = [worker EXCEPT ![ops[c].w] =
                     WorkerStart(@, ops[c].e1, ops[c].size)]
    /\ added' = Append(added, ops[c].w)
    /\ ops' = [ops EXCEPT ![c] = NoOp]
    /\ UNCHANGED <<manager, workers, removed,
                   cfg, workerVars, clientVars, sessionVars, miningVars, hashVars, statsVars, hubVars, decoded>>

\* AddWorker past Unlock: Start if extranonce1 is not empty, and return
AddWorkerStart(c) ==
    /\ ops[c].op = "add"
    /\ worker' = IF ops[c].e1 # ""
                   THEN [worker EXCEPT ![ops[c].w] =
                            WorkerStart(@, ops[c].e1, ops[c].size)]
                   ELSE worker
    /\ added' = Append(added, ops[c].w)
    /\ ops' = [ops EXCEPT ![c] = NoOp]
    /\ UNCHANGED <<manager, workers, removed,
                   cfg, workerVars, clientVars, sessionVars, miningVars, hashVars, statsVars, hubVars, decoded>>

\* RemoveWorker, the lock section; it returns false at once if the id is not
\* in the map
RemoveWorkerLock(c, id) ==
    /\ ops[c].op = "idle"
    /\ IF id \in workers
         THEN /\ workers' = workers \ {id}
              /\ removed' = removed \cup {id}
              /\ ops' = [ops EXCEPT ![c] = [NoOp EXCEPT !.op = "remove", !.w = id]]
         ELSE UNCHANGED <<workers, removed, ops>>
    /\ UNCHANGED <<manager, worker, added,
                   cfg, workerVars, clientVars, sessionVars, miningVars, hashVars, statsVars, hubVars, decoded>>

\* RemoveWorker past Unlock: worker.Stop(), its lock section; Stop returns
\* if the worker does not run
RemoveWorkerStop(c) ==
    /\ ops[c].op = "remove"
    /\ worker' = [worker EXCEPT ![ops[c].w] = WorkerStop(@)]
    /\ ops' = [ops EXCEPT ![c] =
                  IF worker[ops[c].w].running
                    THEN [@ EXCEPT !.op = "removeClose"]
                    ELSE NoOp]
    /\ UNCHANGED <<manager, workers, added, removed,
                   cfg, workerVars, clientVars, sessionVars, miningVars, hashVars, statsVars, hubVars, decoded>>

\* worker.Stop() past its Unlock: close(w.shutdown), and RemoveWorker
\* returns; a panic ends the call as well
RemoveWorkerClose(c) ==
    /\ ops[c].op = "removeClose"
    /\ worker' = [worker EXCEPT ![ops[c].w] = WorkerClose(@)]
    /\ ops' = [ops EXCEPT ![c] = NoOp]
    /\ UNCHANGED <<manager, workers, added, removed,
                   cfg, workerVars, clientVars, sessionVars, miningVars, hashVars, statsVars, hubVars, decoded>>

\* StartAll, the lock section
StartAllLock(c) ==
    /\ ops[c].op = "idle"
    /\ workers # {}
    /\ ops' = [ops EXCEPT ![c] =
                  [NoOp EXCEPT !.op = "startAll", !.ws = workers,
                               !.e1 = manager.extranonce1,
                               !.size = manager.extranonce2Size]]
    /\ UNCHANGED <<manager, workers, worker, added, removed,
                   cfg, workerVars, clientVars, sessionVars, miningVars, hashVars, statsVars, hubVars, decoded>>

\* StartAll on one worker of its snapshot: Start unless IsRunning
StartAllStep(c) ==
    /\ ops[c].op = "startAll"
    /\ \E w \in ops[c].ws :
          /\ worker' = [worker EXCEPT ![w] =
                           WorkerStart(@, ops[c].e1, ops[c].size)]
          /\ ops' = [ops EXCEPT ![c] = Continue(c, ops[c].ws \ {w})]
    /\ UNCHANGED <<manager, workers, added, removed,
                   cfg, workerVars, clientVars, sessionVars, miningVars, hashVars, statsVars, hubVars, decoded>>

\* StopAll: GetAllWorkers
StopAllLock(c) ==
    /\ ops[c].op = "idle"
    /\ workers # {}
    /\ ops' = [ops EXCEPT ![c] = [NoOp EXCEPT !.op = "stopAll", !.ws = workers]]
    /\ UNCHANGED <<manager, workers, worker, added, removed,
                   cfg, workerVars, clientVars, sessionVars, miningVars, hashVars, statsVars, hubVars, decoded>>

\* StopAll on one worker of its snapshot: Stop, its lock section; Stop
\* returns if the worker does not run
StopAllStep(c) ==
    /\ ops[c].op = "stopAll"
    /\ \E w \in ops[c].ws :
          /\ worker' = [worker EXCEPT ![w] = WorkerStop(@)]
          /\ ops' = [ops EXCEPT ![c] =
                        IF worker[w].running
                          THEN [@ EXCEPT !.op = "stopClose", !.w = w]
                          ELSE Continue(c, ops[c].ws \ {w})]
    /\ UNCHANGED <<manager, workers, added, removed,
                   cfg, workerVars, clientVars, sessionVars, miningVars, hashVars, statsVars, hubVars, decoded>>

\* Stop past its Unlock: close(w.shutdown), and StopAll goes on to the next
\* worker; a panic of the close ends the call
StopAllClose(c) ==
    /\ ops[c].op = "stopClose"
    /\ worker' = [worker EXCEPT ![ops[c].w] = WorkerClose(@)]
    /\ ops' = [ops EXCEPT ![c] =
                  IF ClosePanics(worker[ops[c].w]) \/ ops[c].ws = {ops[c].w}
                    THEN NoOp
                    ELSE [@ EXCEPT !.op = "stopAll", !.w = 0,
                                   !.ws = ops[c].ws \ {ops[c].w}]]
    /\ UNCHANGED <<manager, workers, added, removed,
                   cfg, workerVars, clientVars, sessionVars, miningVars, hashVars, statsVars, hubVars, decoded>>

\* SetCPUPercent, the lock section: the pool's default and the snapshot of
\* the workers; with no worker in the map the call returns
SetCPUPercentLock(c, percent) ==
    /\ manager' = [manager EXCEPT !.cpuPercent = percent]
    /\ ops' = [ops EXCEPT ![c] =
                  IF workers = {} THEN NoOp
                  ELSE [NoOp EXCEPT !.op = "cpu", !.p = percent, !.ws = workers]]
    /\ UNCHANGED <<workers, worker, added, removed,
                   cfg, workerVars, clientVars, sessionVars, miningVars, hashVars, statsVars, hubVars, decoded>>

\* Manager.SetCPUPercent(percent) called by an idle goroutine
SetCPUPercent(c, percent) ==
    /\ ops[c].op = "idle"
    /\ SetCPUPercentLock(c, percent)

\* SetCPUPercent past Unlock: Worker.SetCPUPercent on one worker of the
\* snapshot
SetCPUPercentStep(c) ==
    /\ ops[c].op = "cpu"
    /\ \E w \in ops[c].ws :
          /\ worker' = [worker EXCEPT ![w].cpuPercent = ops[c].p]
          /\ ops' = [ops EXCEPT ![c] = Continue(c, ops[c].ws \ {w})]
    /\ UNCHANGED <<manager, workers, added, removed,
                   cfg, workerVars, clientVars, sessionVars, miningVars, hashVars, statsVars, hubVars, decoded>>

\* handleConfig, PUT with max_cpu_percent: Config.Update stores int(v)
handleConfigUpdate(c, v) ==
    /\ ops[c].op = "idle"
    /\ cfg' = [cfg EXCEPT !.MaxCPUPercent = v]
    /\ ops' = [ops EXCEPT ![c] = [NoOp EXCEPT !.op = "config"]]
    /\ UNCHANGED <<manager, workers, worker, added, removed,
                   workerVars, clientVars, sessionVars, miningVars, hashVars, statsVars, hubVars, decoded>>

\* handleConfig, PUT with a max_cpu_percent that is not a number: Update
\* leaves the field, the key is in the map
handleConfigNoNumber(c) ==
    /\ ops[c].op = "idle"
    /\ ops' = [ops EXCEPT ![c] = [NoOp EXCEPT !.op = "config"]]
    /\ UNCHANGED <<manager, workers, worker, added, removed,
                   cfg, workerVars, clientVars, sessionVars, miningVars, hashVars, statsVars, hubVars, decoded>>

\* handleConfig, PUT with wallet_address and without max_cpu_percent
handleConfigWallet(wallet) ==
    /\ cfg' = [cfg EXCEPT !.WalletAddress = wallet]
    /\ UNCHANGED <<manager, workers, worker, ops, added, removed,
                   workerVars, clientVars, sessionVars, miningVars, hashVars, statsVars, hubVars, decoded>>

\* handleConfig, the key being in the map: s.cfg.GetMaxCPUPercent(), a
\* read of the field under cfg.mu
handleConfigGet(c) ==
    /\ ops[c].op = "config"
    /\ ops' = [ops EXCEPT ![c] = [NoOp EXCEPT !.op = "apply",
                                              !.p = cfg.MaxCPUPercent]]
    /\ UNCHANGED <<manager, workers, worker, added, removed,
                   cfg, workerVars, clientVars, sessionVars, miningVars, hashVars, statsVars, hubVars, decoded>>

\* handleConfig: s.manager.SetCPUPercent with the percent read
handleConfigApply(c) ==
    /\ ops[c].op = "apply"
    /\ SetCPUPercentLock(c, ops[c].p)

(***************************************************************************)
(* stats.Collector                                                         *)
(***************************************************************************)
\* s[1:]
Tail1(s) == SubSeq(s, 2, Len(s))

\* append e to history h and drop the oldest entry when h is longer than cap
Push(h, e, cap) ==
    IF Len(h) + 1 > cap THEN Tail1(Append(h, e)) ELSE Append(h, e)

\* Collector.AddShare, under c.mu
AddShare(accepted, difficulty) ==
    /\ now < MaxStamps
    /\ now' = now + 1
    /\ LET entry == [at |-> now + 1, accepted |-> accepted, difficulty |-> difficulty]
       IN  /\ stats' = [stats EXCEPT
                  !.shareHistory = Push(@, entry, MaxHistorySize),
                  !.totalShares = @ + 1,
                  !.acceptedShares = IF accepted THEN @ + 1 ELSE @,
                  !.rejectedShares = IF accepted THEN @ ELSE @ + 1,
                  !.bestDifficulty = IF difficulty > @ THEN difficulty ELSE @]
           /\ shareLog' = Append(shareLog, entry)
    /\ UNCHANGED <<tick, blockLog, sessionLog,
                   workerVars, clientVars, sessionVars, miningVars, poolVars,
                   hashVars, hubVars, decoded>>

\* Collector.AddBlock, under c.mu
AddBlock ==
    /\ now < MaxStamps
    /\ now' = now + 1
    /\ stats' = [stats EXCEPT !.blockHistory = Push(@, [at |-> now + 1], MaxHistorySize)]
    /\ blockLog' = Append(blockLog, [at |-> now + 1])
    /\ UNCHANGED <<tick, shareLog, sessionLog,
                   workerVars, clientVars, sessionVars, miningVars, poolVars,
                   hashVars, hubVars, decoded>>

\* a - b on uint64: the number is wrapped * 2^64 + v
Uint64Sub(a, b) == [wrapped |-> IF a >= b THEN 0 ELSE 1, v |-> a - b]

\* Collector.EndSession, under c.mu
EndSession ==
    /\ now < MaxStamps
    /\ now' = now + 1
    /\ LET session == [at |-> now + 1,
                       totalHashes |-> Uint64Sub(stats.totalHashes, stats.startHashes),
                       bestDifficulty |-> stats.bestDifficulty]
       IN  /\ stats' = [stats EXCEPT
                  !.sessionHistory = Push(@, session, MaxSessionHistory)]
           /\ sessionLog' = Append(sessionLog, session)
    /\ UNCHANGED <<tick, shareLog, blockLog,
                   workerVars, clientVars, sessionVars, miningVars, poolVars,
                   hashVars, hubVars, decoded>>

\* The histories of a stats.json: n entries stamped before the process started
StoredShares(n) == [i \in 1..n |-> [at |-> i - n - 1, accepted |-> TRUE, difficulty |-> 1]]

StoredBlocks(n) == [i \in 1..n |-> [at |-> i - n - 1]]

StoredSessionHistory(n) ==
    [i \in 1..n |-> [at |-> i - n - 1, totalHashes |-> Uint64Sub(0, 0),
                     bestDifficulty |-> 1]]

\* Collector.Load of a well-formed stats.json with ns shares (all accepted),
\* nb blocks, nss sessions and total_hashes th: the counters and histories
\* are taken from the document.  (No file, or a malformed one: Load returns
\* and nothing changes.)
Load(ns, nb, nss, th) ==
    /\ stats' = [totalHashes |-> th, startHashes |-> stats.startHashes,
                 totalShares |-> ns, acceptedShares |-> ns, rejectedShares |-> 0,
                 bestDifficulty |-> IF ns + nss > 0 THEN 1 ELSE 0,
                 shareHistory |-> StoredShares(ns),
                 blockHistory |-> StoredBlocks(nb),
                 sessionHistory |-> StoredSessionHistory(nss)]
    /\ shareLog' = StoredShares(ns)
    /\ blockLog' = StoredBlocks(nb)
    /\ sessionLog' = StoredSessionHistory(nss)
    /\ UNCHANGED <<tick, now,
                   workerVars, clientVars, sessionVars, miningVars, poolVars,
                   hashVars, hubVars, decoded>>

\* NewCollector when the process starts with a stats.json whose total_hashes
\* is th and whose other counters and histories are empty: Load, then
\* startHashes is the total loaded
NewCollector(th) ==
    /\ now = 0
    /\ stats.totalHashes = 0 /\ stats.startHashes = 0
    /\ workers = {}
    /\ stats' = [stats EXCEPT !.totalHashes = th, !.startHashes = th]
    /\ UNCHANGED <<tick, now, shareLog, blockLog, sessionLog,
                   workerVars, clientVars, sessionVars, miningVars, poolVars,
                   hashVars, hubVars, decoded>>

\* A tick of the loop StartStatsLoop runs every second begins:
\* GetTotalHashCount takes its snapshot of the workers (GetAllWorkers)
StatsLoopWorkers ==
    /\ tick.pc = "idle"
    /\ tick' = [NoTick EXCEPT !.pc = "sum", !.ws = workers \cap WorkerIDs]
    /\ UNCHANGED <<stats, now, shareLog, blockLog, sessionLog,
                   workerVars, clientVars, sessionVars, miningVars, poolVars,
                   hashVars, hubVars, decoded>>

\* GetTotalHashCount adds GetHashCount of one worker of its snapshot
StatsLoopAdd ==
    /\ tick.pc = "sum"
    /\ \E w \in tick.ws :
          tick' = [tick EXCEPT !.ws = tick.ws \ {w},
                               !.total = tick.total + hashCount[w]]
    /\ UNCHANGED <<stats, now, shareLog, blockLog, sessionLog,
                   workerVars, clientVars, sessionVars, miningVars, poolVars,
                   hashVars, hubVars, decoded>>

\* Collector.UpdateHashes(count), under c.mu
UpdateHashes(count) == [stats EXCEPT !.totalHashes = count]

\* GetTotalHashCount has returned: UpdateHashes
StatsLoopUpdate ==
    /\ tick.pc = "sum"
    /\ tick.ws = {}
    /\ stats' = UpdateHashes(tick.total)
    /\ tick' = [tick EXCEPT !.pc = "payload"]
    /\ UNCHANGED <<now, shareLog, blockLog, sessionLog,
                   workerVars, clientVars, sessionVars, miningVars, poolVars,
                   hashVars, hubVars, decoded>>

\* buildStatsPayload: GetStats reads the Collector under c.mu; of the
\* payload, total_hashes is kept
StatsLoopPayload ==
    /\ tick.pc = "payload"
    /\ tick' = [tick EXCEPT !.pc = "broadcast", !.payload = stats.totalHashes]
    /\ UNCHANGED <<stats, now, shareLog, blockLog, sessionLog,
                   workerVars, clientVars, sessionVars, miningVars, poolVars,
                   hashVars, hubVars, decoded>>

\* The send channels after WSHub.Broadcast(message): the message is in the
\* channel of every client of the map that has room
Sent(message) ==
    [c \in WSClients |->
        IF c \in hub.clients /\ Len(sendChan[c].buf) < SendBuffer
          THEN [sendChan[c] EXCEPT !.buf = Append(@, message)]
          ELSE sendChan[c]]

\* s.wsHub.BroadcastEvent("stats", statsData): the event is built and
\* Broadcast, under h.mu.RLock, sends it to the clients; the tick ends
StatsLoopBroadcast ==
    /\ tick.pc = "broadcast"
    /\ ~hubBlocked
    /\ sendChan' = Sent([type |-> "stats", n |-> tick.payload])
    /\ tick' = NoTick
    /\ UNCHANGED <<stats, now, shareLog, blockLog, sessionLog,
                   hub, pending, events, logged, replayed, hubBlocked,
                   writePumps,
                   workerVars, clientVars, sessionVars, miningVars, poolVars,
                   hashVars, decoded>>

StatsLoopTick ==
    \/ StatsLoopWorkers
    \/ StatsLoopAdd
    \/ StatsLoopUpdate
    \/ StatsLoopPayload
    \/ StatsLoopBroadcast

\* One pass of the loop of mineBatch by a mineLoop of a worker the pool has
\* started: a header is hashed and counted.  Stop and RemoveWorker do not
\* wait for the mineLoop, whose batch in flight goes on after they return
WorkerHashes(w) ==
    /\ w \in WorkerIDs
    /\ worker[w].mining
    /\ hashed[w] < MaxHashes
    /\ hashed' = [hashed EXCEPT ![w] = @ + 1]
    /\ hashCount' = [hashCount EXCEPT ![w] = @ + 1]
    /\ UNCHANGED <<tried, seen,
                   workerVars, clientVars, sessionVars, miningVars, poolVars,
                   statsVars, hubVars, decoded>>

\* The mineLoops of a worker leave at the select that follows the close of
\* w.shutdown
WorkerLoopExit(w) ==
    /\ w \in WorkerIDs
    /\ worker[w].mining
    /\ worker[w].closed
    /\ worker' = [worker EXCEPT ![w].mining = FALSE]
    /\ UNCHANGED <<manager, workers, ops, added, removed, cfg,
                   workerVars, clientVars, sessionVars, miningVars, hashVars,
                   statsVars, hubVars, decoded>>

\* Collector.Reset, under c.mu: the counters and the share and block
\* histories are emptied, the session history is kept
Reset ==
    /\ stats' = [stats EXCEPT
           !.totalHashes = 0,
           !.totalShares = 0, !.acceptedShares = 0, !.rejectedShares = 0,
           !.bestDifficulty = 0, !.shareHistory = <<>>, !.blockHistory = <<>>]
    /\ shareLog' = <<>>
    /\ blockLog' = <<>>
    /\ UNCHANGED <<tick, now, sessionLog,
                   workerVars, clientVars, sessionVars, miningVars, poolVars,
                   hashVars, hubVars, decoded>>

(***************************************************************************)
(* calculateTarget on the nbits of a job                                   *)
(***************************************************************************)
\* the nbits given to it
NBitsInputs ==
    {e \o <<c[1], "0", "0", c[2], "0", c[3]>> :
        e \in ExponentDigits, c \in [1..3 -> CoefficientDigits]}
      \cup MalformedNBits

Decode(nbits) ==
    /\ decoded' = [nbits |-> nbits, target |-> calculateTarget(nbits)]
    /\ UNCHANGED <<workerVars, clientVars, sessionVars, miningVars, poolVars,
                   hashVars, statsVars, hubVars>>

(***************************************************************************)
(* api.WSHub                                                               *)
(***************************************************************************)
\* BroadcastEvent that keeps the oldest entries of a full logHistory
BroadcastEventKeepOldest(g, eventType) ==
    /\ ~hubBlocked
    /\ pending[g] = NoEvent
    /\ IF eventType = "log"
         THEN /\ events.log < MaxLogs
              /\ events' = [events EXCEPT !.log = @ + 1]
              /\ pending' = [pending EXCEPT ![g] = [type |-> "log", n |-> events.log + 1]]
              /\ hub' = [hub EXCEPT !.logHistory =
                            IF Len(@) + 1 > LogHistoryCap THEN @
                            ELSE Append(@, [type |-> "log", n |-> events.log + 1])]
              /\ logged' = Append(logged, [type |-> "log", n |-> events.log + 1])
         ELSE /\ events.other < MaxOther
              /\ events' = [events EXCEPT !.other = @ + 1]
              /\ pending' = [pending EXCEPT ![g] = [type |-> eventType, n |-> events.other + 1]]
              /\ UNCHANGED <<hub, logged>>
    /\ UNCHANGED <<sendChan, replayed, hubBlocked, writePumps,
                   workerVars, clientVars, sessionVars, miningVars, poolVars,
                   hashVars, statsVars, decoded>>

\* WSHub.BroadcastEvent up to its call of Broadcast: the event is built and,
\* when its type is "log", appended to logHistory under h.mu, the oldest
\* entry leaving a history of more than 50
BroadcastEvent(g, eventType) ==
    /\ ~hubBlocked
    /\ pending[g] = NoEvent
    /\ IF eventType = "log"
         THEN /\ events.log < MaxLogs
              /\ events' = [events EXCEPT !.log = @ + 1]
              /\ pending' = [pending EXCEPT ![g] = [type |-> "log", n |-> events.log + 1]]
              /\ hub' = [hub EXCEPT !.logHistory =
                            Push(@, [type |-> "log", n |-> events.log + 1], LogHistoryCap)]
              /\ logged' = Append(logged, [type |-> "log", n |-> events.log + 1])
         ELSE /\ events.other < MaxOther
              /\ events' = [events EXCEPT !.other = @ + 1]
              /\ pending' = [pending EXCEPT ![g] = [type |-> eventType, n |-> events.other + 1]]
              /\ UNCHANGED <<hub, logged>>
    /\ UNCHANGED <<sendChan, replayed, hubBlocked, writePumps,
                   workerVars, clientVars, sessionVars, miningVars, poolVars,
                   hashVars, statsVars, decoded>>

\* WSHub.Broadcast, under h.mu.RLock: the message goes into the send channel
\* of every client that has room, and is skipped for the others
Broadcast(g) ==
    /\ ~hubBlocked
    /\ pending[g] # NoEvent
    /\ sendChan' = Sent(pending[g])
    /\ pending' = [pending EXCEPT ![g] = NoEvent]
    /\ UNCHANGED <<hub, events, logged, replayed, hubBlocked, writePumps,
                   workerVars, clientVars, sessionVars, miningVars, poolVars,
                   hashVars, statsVars, decoded>>

\* WSHub.HandleWebSocket: a WSClient is made with an empty send channel of
\* 256 messages and given to AddClient, which under h.mu puts it into the
\* map and sends it every entry of logHistory; a send on a full channel
\* blocks, h.mu held.  AddClient having returned, the writePump of the
\* client is started.
HandleWebSocket(c) ==
    /\ ~hubBlocked
    /\ c \notin hub.clients
    /\ ~sendChan[c].closed
    /\ writePumps[c] = NoWritePump
    /\ replayed[c] = <<>> /\ sendChan[c].buf = <<>>
    /\ hub' = [hub EXCEPT !.clients = @ \cup {c}]
    /\ replayed' = [replayed EXCEPT ![c] = hub.logHistory]
    /\ IF Len(hub.logHistory) <= SendBuffer
         THEN /\ sendChan' = [sendChan EXCEPT ![c].buf = hub.logHistory]
              /\ writePumps' = [writePumps EXCEPT ![c].pc = "receive"]
              /\ UNCHANGED hubBlocked
         ELSE /\ sendChan' = [sendChan EXCEPT ![c].buf =
                                  SubSeq(hub.logHistory, 1, SendBuffer)]
              /\ hubBlocked' = TRUE
              /\ UNCHANGED writePumps
    /\ UNCHANGED <<pending, events, logged,
                   workerVars, clientVars, sessionVars, miningVars, poolVars,
                   hashVars, statsVars, decoded>>

\* WSHub.RemoveClient, called when readPump ends: under h.mu the client
\* leaves the map and its send channel is closed
RemoveClient(c) ==
    /\ ~hubBlocked
    /\ c \in hub.clients
    /\ hub' = [hub EXCEPT !.clients = @ \ {c}]
    /\ sendChan' = [sendChan EXCEPT ![c].closed = TRUE]
    /\ UNCHANGED <<pending, events, logged, replayed, hubBlocked, writePumps,
                   workerVars, clientVars, sessionVars, miningVars, poolVars,
                   hashVars, statsVars, decoded>>

\* writePump, `case message, ok := <-client.send`: the oldest message of the
\* channel is received; on a channel closed and empty the pump writes the
\* close message and returns
WritePumpReceive(c) ==
    /\ writePumps[c].pc = "receive"
    /\ IF sendChan[c].buf # <<>>
         THEN /\ Len(writePumps[c].written) < MaxWritten
              /\ sendChan' = [sendChan EXCEPT ![c].buf = Tail(@)]
              /\ writePumps' = [writePumps EXCEPT
                     ![c].pc = "write", ![c].message = Head(sendChan[c].buf)]
         ELSE /\ sendChan[c].closed
              /\ writePumps' = [writePumps EXCEPT ![c].pc = "done"]
              /\ UNCHANGED sendChan
    /\ UNCHANGED <<hub, pending, events, logged, replayed, hubBlocked,
                   workerVars, clientVars, sessionVars, miningVars, poolVars,
                   hashVars, statsVars, decoded>>

\* writePump, conn.WriteMessage(websocket.TextMessage, message): the message
\* is written and the pump loops, or the write fails and the pump returns
WritePumpWrite(c) ==
    /\ writePumps[c].pc = "write"
    /\ \/ writePumps' = [writePumps EXCEPT
              ![c].pc = "receive",
              ![c].message = NoWritePump.message,
              ![c].written = Append(@, writePumps[c].message)]
       \/ writePumps' = [writePumps EXCEPT
              ![c].pc = "failed", ![c].message = NoWritePump.message]
    /\ UNCHANGED <<hub, sendChan, pending, events, logged, replayed,
                   hubBlocked,
                   workerVars, clientVars, sessionVars, miningVars, poolVars,
                   hashVars, statsVars, decoded>>

\* writePump, `case <-ticker.C`: the write of the ping fails and the pump
\* returns (a ping written changes nothing)
WritePumpPing(c) ==
    /\ writePumps[c].pc = "receive"
    /\ writePumps' = [writePumps EXCEPT ![c].pc = "failed"]
    /\ UNCHANGED <<hub, sendChan, pending, events, logged, replayed,
                   hubBlocked,
                   workerVars, clientVars, sessionVars, miningVars, poolVars,
                   hashVars, statsVars, decoded>>

writePump(c) ==
    \/ WritePumpReceive(c)
    \/ WritePumpWrite(c)
    \/ WritePumpPing(c)

(***************************************************************************)
(* The worker through its life cycle.  With MaxJobs below JobChannelCap    *)
(* the mailbox never fills here, so UpdateJob always takes its first       *)
(* branch; SpecMailbox covers the full mailbox.  A share callback is set  *)
(* at some point and stays set.                                            *)
(***************************************************************************)
NextWorker ==
    \/ \E w \in WorkerIDs, d \in StratumData : Start(w, d[1], d[2])
    \/ \E w \in WorkerIDs : Stop(w)
    \/ \E w \in WorkerIDs : StopClose(w)
    \/ \E c \in Callers, w \in WorkerIDs : UpdateJob(c, w, MaxJobs)
    \/ \E w \in WorkerIDs, l \in LoopSlots : LoopExit(w, l)
    \/ \E w \in WorkerIDs, l \in LoopSlots : LoopReceive(w, l)
    \/ \E w \in WorkerIDs, l \in LoopSlots : LoopAssign(w, l)
    \/ \E w \in WorkerIDs, l \in LoopSlots : LoopDefault(w, l)
    \/ \E w \in WorkerIDs, l \in LoopSlots : LoopReadJob(w, l)
    \/ \E w \in WorkerIDs, l \in LoopSlots, hashes \in Tried(PlainHashes) :
          mineBatchHash(w, l, hashes)
    \/ \E w \in WorkerIDs, l \in LoopSlots : mineBatchReturn(w, l)
    \/ \E w \in WorkerIDs, l \in LoopSlots : LoopShareCheck(w, l)
    \/ \E w \in WorkerIDs, l \in LoopSlots : LoopShareCall(w, l)
    \/ \E w \in WorkerIDs, l \in LoopSlots : LoopThrottle(w, l)
    \/ \E w \in WorkerIDs : WorkerSetShareCallback(w, "submit")

SpecWorker == Init /\ [][NextWorker]_vars

(***************************************************************************)
(* The same life cycle for the worker's termination: the worker is        *)
(* started with the data of a subscribe response and given one job.       *)
(***************************************************************************)
NextWorkerFair ==
    \/ \E w \in WorkerIDs : Start(w, "81000001", 4)
    \/ \E w \in WorkerIDs : Stop(w)
    \/ \E w \in WorkerIDs : StopClose(w)
    \/ \E c \in Callers, w \in WorkerIDs : UpdateJob(c, w, MaxCounted)
    \/ \E w \in WorkerIDs, l \in LoopSlots : LoopExit(w, l)
    \/ \E w \in WorkerIDs, l \in LoopSlots : LoopReceive(w, l)
    \/ \E w \in WorkerIDs, l \in LoopSlots : LoopAssign(w, l)
    \/ \E w \in WorkerIDs, l \in LoopSlots : LoopDefault(w, l)
    \/ \E w \in WorkerIDs, l \in LoopSlots : LoopReadJob(w, l)
    \/ \E w \in WorkerIDs, l \in LoopSlots, hashes \in Tried(PlainHashes) :
          mineBatchHash(w, l, hashes)
    \/ \E w \in WorkerIDs, l \in LoopSlots : mineBatchReturn(w, l)
    \/ \E w \in WorkerIDs, l \in LoopSlots : LoopShareCheck(w, l)
    \/ \E w \in WorkerIDs, l \in LoopSlots : LoopShareCall(w, l)
    \/ \E w \in WorkerIDs, l \in LoopSlots : LoopThrottle(w, l)
    \/ \E w \in WorkerIDs : WorkerSetShareCallback(w, "submit")

\* Go schedules every runnable goroutine, and a select picks at random among
\* its ready cases: a mineLoop that can leave by the shutdown case does.
\* mineBatch is a loop of batchSize passes: no batch lasts for ever.
FairWorker ==
    \A w \in WorkerIDs, l \in LoopSlots :
        /\ SF_vars(LoopExit(w, l))
        /\ WF_vars(LoopAssign(w, l))
        /\ WF_vars(LoopReadJob(w, l))
        /\ []<>(loops[w][l].pc # "batch")
        /\ WF_vars(LoopShareCheck(w, l))
        /\ WF_vars(LoopShareCall(w, l))
        /\ WF_vars(LoopThrottle(w, l))

SpecWorkerFair == Init /\ [][NextWorkerFair]_vars /\ FairWorker

(***************************************************************************)
(* The worker mining: it is started, jobs are delivered, and its batches   *)
(* end with or without a share.                                            *)
(***************************************************************************)
NextMining ==
    \/ \E w \in WorkerIDs, d \in StratumData : Start(w, d[1], d[2])
    \/ \E c \in Callers, w \in WorkerIDs : UpdateJob(c, w, MaxMined)
    \/ \E w \in WorkerIDs, l \in LoopSlots : LoopReceive(w, l)
    \/ \E w \in WorkerIDs, l \in LoopSlots : LoopAssign(w, l)
    \/ \E w \in WorkerIDs, l \in LoopSlots : LoopDefault(w, l)
    \/ \E w \in WorkerIDs, l \in LoopSlots : LoopReadJob(w, l)
    \/ \E w \in WorkerIDs, l \in LoopSlots, hashes \in Tried(HashSamples) :
          mineBatchHash(w, l, hashes)
    \/ \E w \in WorkerIDs, l \in LoopSlots : mineBatchReturn(w, l)
    \/ \E w \in WorkerIDs, l \in LoopSlots : LoopShareCheck(w, l)
    \/ \E w \in WorkerIDs, l \in LoopSlots : LoopShareCall(w, l)
    \/ \E w \in WorkerIDs, l \in LoopSlots : LoopThrottle(w, l)
    \/ \E w \in WorkerIDs, cb \in ShareCallbacks : WorkerSetShareCallback(w, cb)

SpecMining == Init /\ [][NextMining]_vars

(***************************************************************************)
(* The statistics collector: a stats.json is loaded, shares, blocks and    *)
(* sessions are recorded, and the statistics are reset.                    *)
(***************************************************************************)
NextStats ==
    \/ \E ns \in StoredLengths, nb \in StoredLengths, nss \in StoredSessions :
          Load(ns, nb, nss, ns)
    \/ \E accepted \in BOOLEAN, difficulty \in Difficulties :
          AddShare(accepted, difficulty)
    \/ AddBlock
    \/ EndSession
    \/ Reset

SpecStats == Init /\ [][NextStats]_vars

(***************************************************************************)
(* calculateTarget applied to one nbits after the other.                   *)
(***************************************************************************)
NextTarget == \E nbits \in NBitsInputs : Decode(nbits)

SpecTarget == Init /\ [][NextTarget]_vars

(***************************************************************************)
(* The hub: events are broadcast while a client subscribes and leaves.     *)
(*                                                                         *)
(***************************************************************************)
NextHub ==
    \/ \E g \in Broadcasters, eventType \in EventTypes : BroadcastEvent(g, eventType)
    \/ \E g \in Broadcasters : Broadcast(g)
    \/ \E c \in WSClients : HandleWebSocket(c)
    \/ \E c \in WSClients : RemoveClient(c)
    \/ \E c \in WSClients : writePump(c)

SpecHub == Init /\ [][NextHub]_vars

(***************************************************************************)
(* The collector's hash totals: the process starts with or without a       *)
(* stats.json, workers are added, started and removed and hash, the stats  *)
(* loop ticks, sessions end and the statistics are reset.                  *)
(***************************************************************************)
NextTotals ==
    \/ \E th \in StoredHashes : NewCollector(th)
    \/ \E d \in StratumData : SetStratumData(d[1], d[2])
    \/ \E c \in PoolCallers : AddWorkerLock(c, MaxPooled)
    \/ \E c \in PoolCallers : AddWorkerStart(c)
    \/ \E c \in PoolCallers, id \in 1..MaxPooled : RemoveWorkerLock(c, id)
    \/ \E c \in PoolCallers : RemoveWorkerStop(c)
    \/ \E c \in PoolCallers : RemoveWorkerClose(c)
    \/ \E w \in WorkerIDs : WorkerHashes(w)
    \/ \E w \in WorkerIDs : WorkerLoopExit(w)
    \/ StatsLoopTick
    \/ EndSession
    \/ Reset

SpecTotals == Init /\ [][NextTotals]_vars

(***************************************************************************)
(* The worker mining hash by hash while it is started, stopped, given     *)
(* jobs and throttled, and its counter is read; it is started with the    *)
(* data of a subscribe response.                                           *)
(***************************************************************************)
NextHashes ==
    \/ \E w \in WorkerIDs : Start(w, "81000001", 4)
    \/ \E w \in WorkerIDs : Stop(w)
    \/ \E w \in WorkerIDs : StopClose(w)
    \/ \E c \in Callers, w \in WorkerIDs : UpdateJob(c, w, MaxCounted)
    \/ \E w \in WorkerIDs, l \in LoopSlots : LoopExit(w, l)
    \/ \E w \in WorkerIDs, l \in LoopSlots : LoopReceive(w, l)
    \/ \E w \in WorkerIDs, l \in LoopSlots : LoopAssign(w, l)
    \/ \E w \in WorkerIDs, l \in LoopSlots : LoopDefault(w, l)
    \/ \E w \in WorkerIDs, l \in LoopSlots : LoopReadJob(w, l)
    \/ \E w \in WorkerIDs, l \in LoopSlots, hashes \in Tried(PlainHashes) :
          mineBatchHash(w, l, hashes)
    \/ \E w \in WorkerIDs, l \in LoopSlots : mineBatchReturn(w, l)
    \/ \E w \in WorkerIDs, l \in LoopSlots : LoopShareCheck(w, l)
    \/ \E w \in WorkerIDs, l \in LoopSlots : LoopShareCall(w, l)
    \/ \E w \in WorkerIDs, l \in LoopSlots : LoopThrottle(w, l)
    \/ \E w \in WorkerIDs : WorkerSetShareCallback(w, "submit")
    \/ \E w \in WorkerIDs : GetHashCount(w)
    \/ \E w \in WorkerIDs, percent \in {DefaultCPUPercent} :
          WorkerSetCPUPercent(w, percent)

SpecHashes == Init /\ [][NextHashes]_vars

(***************************************************************************)
(* The same, with the worker stopped and started again while it mines; it  *)
(* is started with the data of a subscribe response.                       *)
(***************************************************************************)
NextMiningRestart ==
    \/ \E w \in WorkerIDs : Start(w, "81000001", 4)
    \/ \E w \in WorkerIDs : Stop(w)
    \/ \E w \in WorkerIDs : StopClose(w)
    \/ \E c \in Callers, w \in WorkerIDs : UpdateJob(c, w, MaxJobs)
    \/ \E w \in WorkerIDs, l \in LoopSlots : LoopExit(w, l)
    \/ \E w \in WorkerIDs, l \in LoopSlots : LoopReceive(w, l)
    \/ \E w \in WorkerIDs, l \in LoopSlots : LoopAssign(w, l)
    \/ \E w \in WorkerIDs, l \in LoopSlots : LoopDefault(w, l)
    \/ \E w \in WorkerIDs, l \in LoopSlots : LoopReadJob(w, l)
    \/ \E w \in WorkerIDs, l \in LoopSlots, hashes \in Tried(PlainHashes) :
          mineBatchHash(w, l, hashes)
    \/ \E w \in WorkerIDs, l \in LoopSlots : mineBatchReturn(w, l)
    \/ \E w \in WorkerIDs, l \in LoopSlots : LoopShareCheck(w, l)
    \/ \E w \in WorkerIDs, l \in LoopSlots : LoopShareCall(w, l)
    \/ \E w \in WorkerIDs, l \in LoopSlots : LoopThrottle(w, l)
    \/ \E w \in WorkerIDs, cb \in ShareCallbacks : WorkerSetShareCallback(w, cb)

SpecMiningRestart == Init /\ [][NextMiningRestart]_vars

(***************************************************************************)
(* The mailbox under a burst of jobs: a worker that is started at some     *)
(* point and never stopped.                                                *)
(***************************************************************************)
NextMailbox ==
    \/ \E w \in WorkerIDs, d \in StratumData : Start(w, d[1], d[2])
    \/ \E c \in Callers, w \in WorkerIDs : UpdateJob(c, w, MaxBurst)
    \/ \E c \in Callers : UpdateJobDrop(c)
    \/ \E c \in Callers : UpdateJobSend(c)
    \/ \E w \in WorkerIDs, l \in LoopSlots : LoopReceive(w, l)
    \/ \E w \in WorkerIDs, l \in LoopSlots : LoopAssign(w, l)
    \/ \E w \in WorkerIDs, l \in LoopSlots : LoopDefault(w, l)
    \/ \E w \in WorkerIDs, l \in LoopSlots : LoopReadJob(w, l)
    \/ \E w \in WorkerIDs, l \in LoopSlots, hashes \in Tried(PlainHashes) :
          mineBatchHash(w, l, hashes)
    \/ \E w \in WorkerIDs, l \in LoopSlots : mineBatchReturn(w, l)
    \/ \E w \in WorkerIDs, l \in LoopSlots : LoopShareCheck(w, l)
    \/ \E w \in WorkerIDs, l \in LoopSlots : LoopThrottle(w, l)

SpecMailbox == Init /\ [][NextMailbox]_vars

(***************************************************************************)
(* The Stratum client driven by the mining start and stop requests, the    *)
(* workers' shares and the state of the connection.  The pool sends        *)
(* nothing in the time observed, so the client never holds a job and the   *)
(* mineLoops the requests start, which are left out, would only idle or    *)
(* leave; no callback is registered on the client.                         *)
(***************************************************************************)
NextClient ==
    \/ ConnectDial
    \/ Connect
    \/ ConnectConnectedCheck
    \/ Subscribe
    \/ AuthorizeAnyWallet
    \/ AuthorizeSend
    \/ AuthorizeWrite
    \/ StartConnected
    \/ StartPool
    \/ handleMiningStop
    \/ \E s \in Submitters : Submit(s)
    \/ \E k \in ConnIDs : ConnFail(k)
    \/ \E l \in ConnIDs : ReadLoopSelect(l)
    \/ \E l \in ConnIDs : ReadLoopTop(l)
    \/ \E l \in ConnIDs : ReadLoopError(l)
    \/ \E l \in ConnIDs : ReadLoopDisconnectedCheck(l)

SpecClient == Init /\ [][NextClient]_vars

(***************************************************************************)
(* The Stratum client and what the pool sends it: responses, notifications *)
(* and other lines, in any order and in any phase of the handshake, up to  *)
(* the end of the waits of the mining start request.  onJobReceived and    *)
(* onSubscribed are registered at any time, onDisconnected is registered   *)
(* and set back to nil at any time.                                        *)
(***************************************************************************)
NextSession ==
    \/ SetJobCallback("func")
    \/ SetSubscribedCallback("func")
    \/ \E cb \in ClientCallbacks : SetDisconnectedCallback(cb)
    \/ ConnectDial
    \/ Connect
    \/ ConnectConnectedCheck
    \/ Subscribe
    \/ AuthorizeAnyWallet
    \/ AuthorizeSend
    \/ AuthorizeWrite
    \/ \E k \in ConnIDs : ConnFail(k)
    \/ \E l \in ConnIDs : ReadLoopSelect(l)
    \/ \E l \in ConnIDs : ReadLoopTop(l)
    \/ \E l \in ConnIDs : ReadLoopError(l)
    \/ \E l \in ConnIDs : ReadLoopDisconnectedCheck(l)
    \/ \E l \in ConnIDs : ReadLoopDisconnected(l)
    \/ \E l \in ConnIDs, m \in PoolLines(lines) : ReadLoopRead(l, m)
    \/ \E l \in ConnIDs : ReadLoopHandle(l)
    \/ \E l \in ConnIDs : ReadLoopCallbackCheck(l)
    \/ \E l \in ConnIDs : ReadLoopCallback(l)

SpecSession == Init /\ [][NextSession]_vars

(***************************************************************************)
(* The mining start requests, the client's read loops and a pool that      *)
(* answers the requests in any way and sends jobs: a request that finds a  *)
(* job on the client broadcasts it to the workers it has started.  Of the  *)
(* callbacks, onAuthorized is registered, at any time.                     *)
(***************************************************************************)
NextStart ==
    \/ SetAuthorizedCallback("func")
    \/ ConnectDial
    \/ Connect
    \/ ConnectConnectedCheck
    \/ Subscribe
    \/ Authorize
    \/ StartConnected
    \/ StartPool
    \/ StartBroadcast
    \/ \E k \in ConnIDs : ConnFail(k)
    \/ \E l \in ConnIDs : ReadLoopSelect(l)
    \/ \E l \in ConnIDs : ReadLoopTop(l)
    \/ \E l \in ConnIDs : ReadLoopError(l)
    \/ \E l \in ConnIDs : ReadLoopDisconnectedCheck(l)
    \/ \E l \in ConnIDs : ReadLoopResponse(l)
    \/ \E l \in ConnIDs, m \in AcceptingPoolLines(lines) : ReadLoopRead(l, m)
    \/ \E l \in ConnIDs : ReadLoopHandle(l)
    \/ \E l \in ConnIDs : ReadLoopCallbackCheck(l)
    \/ \E l \in ConnIDs : ReadLoopCallback(l)

SpecStart == Init /\ [][NextStart]_vars

(***************************************************************************)
(* The client's read loops and a pool that sends jobs and accepts the      *)
(* subscription and the authorization, with mining start and stop          *)
(* requests: the client is closed while a read loop runs and is connected  *)
(* again by the next start request.  Of the callbacks, onJobReceived is    *)
(* registered, at any time.                                                *)
(***************************************************************************)
NextRestart ==
    \/ SetJobCallback("func")
    \/ ConnectDial
    \/ Connect
    \/ ConnectConnectedCheck
    \/ Subscribe
    \/ AuthorizeAnyWallet
    \/ AuthorizeSend
    \/ AuthorizeWrite
    \/ StopGetAllWorkers
    \/ StopThenClose
    \/ \E k \in ConnIDs : ConnFail(k)
    \/ \E l \in ConnIDs : ReadLoopSelect(l)
    \/ \E l \in ConnIDs : ReadLoopTop(l)
    \/ \E l \in ConnIDs : ReadLoopError(l)
    \/ \E l \in ConnIDs : ReadLoopDisconnectedCheck(l)
    \/ \E l \in ConnIDs, m \in AcceptingPoolLines(lines) : ReadLoopRead(l, m)
    \/ \E l \in ConnIDs : ReadLoopHandle(l)
    \/ \E l \in ConnIDs : ReadLoopCallbackCheck(l)
    \/ \E l \in ConnIDs : ReadLoopCallback(l)

SpecRestart == Init /\ [][NextRestart]_vars

(***************************************************************************)
(* Mining start requests made one after the other, the wallet address      *)
(* being configured at any time by PUT /config requests.  The pool sends   *)
(* answers to the requests and nothing else, so no job reaches the         *)
(* workers.  Of the callbacks, onConnected is registered and set back to   *)
(* nil at any time.                                                        *)
(***************************************************************************)
NextWallet ==
    \/ \E wallet \in Wallets : handleConfigWallet(wallet)
    \/ \E cb \in ClientCallbacks : SetConnectedCallback(cb)
    \/ ConnectDial
    \/ Connect
    \/ ConnectConnectedCheck
    \/ ConnectConnected
    \/ Subscribe
    \/ Authorize
    \/ StartConnected
    \/ StartPool
    \/ \E l \in ConnIDs : ReadLoopSelect(l)
    \/ \E l \in ConnIDs : ReadLoopTop(l)
    \/ \E l \in ConnIDs : ReadLoopError(l)
    \/ \E l \in ConnIDs : ReadLoopDisconnectedCheck(l)
    \/ \E l \in ConnIDs : ReadLoopResponse(l)
    \/ \E l \in ConnIDs : ReadLoopHandle(l)
    \/ \E l \in ConnIDs : ReadLoopCallbackCheck(l)
    \/ \E k \in ConnIDs : ConnFail(k)

SpecWallet == Init /\ [][NextWallet]_vars

(***************************************************************************)
(* The membership of the pool: handlers that run at the same time add and  *)
(* remove workers, before and after the stratum data is known.             *)
(***************************************************************************)
NextMembers ==
    \/ \E d \in StratumData : SetStratumData(d[1], d[2])
    \/ \E c \in PoolCallers : AddWorkerLock(c, MaxWorkers)
    \/ \E c \in PoolCallers : AddWorkerStart(c)
    \/ \E c \in PoolCallers, id \in PoolIDs : RemoveWorkerLock(c, id)
    \/ \E c \in PoolCallers : RemoveWorkerStop(c)
    \/ \E c \in PoolCallers : RemoveWorkerClose(c)

SpecMembers == Init /\ [][NextMembers]_vars

(***************************************************************************)
(* The throttle: handlers that run at the same time set the CPU percent,   *)
(* directly and through PUT /config, while workers are added and removed.  *)
(***************************************************************************)
NextThrottle ==
    \/ \E c \in PoolCallers : AddWorkerLock(c, MaxPooled)
    \/ \E c \in PoolCallers : AddWorkerStart(c)
    \/ \E c \in PoolCallers, id \in 1..MaxPooled : RemoveWorkerLock(c, id)
    \/ \E c \in PoolCallers : RemoveWorkerStop(c)
    \/ \E c \in PoolCallers, p \in Percents : SetCPUPercent(c, p)
    \/ \E c \in PoolCallers : SetCPUPercentStep(c)
    \/ \E c \in PoolCallers, v \in Percents : handleConfigUpdate(c, v)
    \/ \E c \in PoolCallers : handleConfigNoNumber(c)
    \/ \E c \in PoolCallers : handleConfigGet(c)
    \/ \E c \in PoolCallers : handleConfigApply(c)

SpecThrottle == Init /\ [][NextThrottle]_vars

(***************************************************************************)
(* The pool: workers are added, removed, started and stopped by handlers   *)
(* that run at the same time, while the stratum data and the share         *)
(* callback are set.                                                       *)
(***************************************************************************)
NextPool ==
    \/ \E cb \in ShareCallbacks : SetShareCallback(cb)
    \/ \E d \in StratumData : SetStratumData(d[1], d[2])
    \/ \E c \in PoolCallers : AddWorkerLock(c, MaxPooled)
    \/ \E c \in PoolCallers : AddWorkerStart(c)
    \/ \E c \in PoolCallers, id \in 1..MaxPooled : RemoveWorkerLock(c, id)
    \/ \E c \in PoolCallers : RemoveWorkerStop(c)
    \/ \E c \in PoolCallers : RemoveWorkerClose(c)
    \/ \E c \in PoolCallers : StartAllLock(c)
    \/ \E c \in PoolCallers : StartAllStep(c)
    \/ \E c \in PoolCallers : StopAllLock(c)
    \/ \E c \in PoolCallers : StopAllStep(c)
    \/ \E c \in PoolCallers : StopAllClose(c)

SpecPool == Init /\ [][NextPool]_vars

(***************************************************************************)
(* Claims about the worker                                                 *)
(***************************************************************************)

AllCallersIdle == \A c \in Callers : callers[c].pc = "idle"

\* A caller of UpdateJob that waits at the final send with nobody left to make
\* room: the mailbox is full, the worker has no mineLoop, and no other caller
\* is about to drop a job.
StuckCaller(c) ==
    /\ callers[c].pc = "send"
    /\ Len(jobChannel[callers[c].w]) = JobChannelCap
    /\ LiveLoops(callers[c].w) = {}
    /\ \A d \in Callers : callers[d].pc # "drop"

\* C2: UpdateJob (and so BroadcastJob) never leaves its caller blocked on the
\* mailbox, for any number of concurrent callers and whether or not the
\* worker's mineLoop is draining.
C2_UpdateJobNeverBlocks == \A c \in Callers : ~StuckCaller(c)

BatchStarts(w, l) == loops[w][l].pc # "batch" /\ loops'[w][l].pc = "batch"

\* C3: once UpdateJob(J) has returned (J is in `enqueued`), every batch a
\* mineLoop starts runs on J or on a job delivered after J: the batch's job is
\* the last one delivered.
C3_NextBatchUsesLatestJob ==
    [][\A w \in WorkerIDs, l \in LoopSlots :
          BatchStarts(w, l) => loops'[w][l].j = Last(enqueued[w])]_vars

\* The worker's first receive after a burst of more than JobChannelCap
\* completed UpdateJob calls that nothing drained
FirstTakeAfterBurst(w) ==
    /\ ~drained[w]
    /\ drained'[w]
    /\ AllCallersIdle
    /\ Len(enqueued[w]) > JobChannelCap

\* C4 as claimed: after more than JobChannelCap UpdateJob calls without the
\* worker draining, the first job the worker takes from the mailbox is the last
\* one enqueued.
C4_FirstTakenIsLastEnqueued ==
    [][\A w \in WorkerIDs :
          FirstTakeAfterBurst(w) => Head(jobChannel[w]) = Last(enqueued[w])]_vars

\* C4 as amended: after such a burst the mailbox holds exactly the last
\* JobChannelCap jobs enqueued, in order; the first job the worker takes is
\* the oldest of them and the last job enqueued is the last of them.
C4_MailboxKeepsLatest ==
    [][\A w \in WorkerIDs :
          FirstTakeAfterBurst(w) =>
             /\ jobChannel[w] = SubSeq(enqueued[w],
                                       Len(enqueued[w]) - JobChannelCap + 1,
                                       Len(enqueued[w]))
             /\ Head(jobChannel[w]) = enqueued[w][Len(enqueued[w]) - JobChannelCap + 1]
             /\ Last(jobChannel[w]) = Last(enqueued[w])]_vars

\* a mineLoop holds the first job taken after a burst: the oldest one kept
C4_Witness ==
    \E w \in WorkerIDs, l \in LoopSlots :
        /\ loops[w][l].pc = "assign"
        /\ Len(enqueued[w]) > JobChannelCap
        /\ Len(jobChannel[w]) = JobChannelCap - 1
        /\ loops[w][l].j = enqueued[w][Len(enqueued[w]) - JobChannelCap + 1]
        /\ loops[w][l].j # Last(enqueued[w])

\* C5: a worker on which Start has returned, and no Stop has been called
\* since, has a live mineLoop.
C5_StartedWorkerHasLoop ==
    \A w \in WorkerIDs :
        (running[w] /\ stoppers[w] = 0) => LiveLoops(w) # {}

\* C6: no Stop call fails, after any sequence of Start and Stop calls.
C6_StopNeverPanics == \A w \in WorkerIDs : ~stopPanicked[w]

\* C7 as claimed: once a Stop call on a running worker has returned
\* (w.shutdown is closed), no mineLoop of the worker starts a batch.
C7_NoBatchStartsAfterStop ==
    [][\A w \in WorkerIDs, l \in LoopSlots :
          shutdownClosed[w] => ~BatchStarts(w, l)]_vars

\* C7 as amended: once w.shutdown is closed no select of a mineLoop of the
\* worker takes its default branch, so that each mineLoop starts at most the
\* one batch whose select came before the close, and every mineLoop of the
\* worker terminates.
C7_StopIsBounded ==
    /\ [][\A w \in WorkerIDs, l \in LoopSlots :
             (shutdownClosed[w] /\ loops[w][l].pc = "select") =>
                 loops'[w][l].pc \in {"select", "assign", "none"}]_vars
    /\ \A w \in WorkerIDs, l \in LoopSlots :
          (shutdownClosed[w] /\ loops[w][l].pc # "none")
              ~> (loops[w][l].pc = "none")

\* Stop has returned while a mineLoop was past its select, about to read the
\* job of its next batch
C7_Witness ==
    \E w \in WorkerIDs, l \in LoopSlots :
        /\ shutdownClosed[w]
        /\ ~running[w]
        /\ stoppers[w] = 0
        /\ loops[w][l].pc = "default"
        /\ job[w] # NoJob

\* C8: Start is idempotent: whatever Start calls are made on a worker,
\* running or stopped, the worker has at most one mineLoop at any time, and
\* no step taken while the worker is running (a redundant Start among them)
\* adds a mineLoop or replaces extranonce1; extranonce2 is only replaced by
\* the mineLoop's own job change.
C8_StartIsIdempotent ==
    /\ [](\A w \in WorkerIDs : Cardinality(LiveLoops(w)) <= 1)
    /\ [][\A w \in WorkerIDs :
             running[w] =>
                /\ LiveLoops(w)' \subseteq LiveLoops(w)
                /\ extranonce1'[w] = extranonce1[w]
                /\ \/ extranonce2'[w] = extranonce2[w]
                   \/ \E l \in LoopSlots : loops[w][l].pc = "assign"
                                            /\ loops'[w][l].pc = "select"]_vars

(***************************************************************************)
(* Claims about the Stratum client                                         *)
(***************************************************************************)

\* C1: every mining.subscribe request written to a connection has id 1, every
\* mining.authorize request has id 2, and the other requests have strictly
\* increasing ids from 3 on, also after Close and a new Connect.
C1_ReservedRequestIds ==
    /\ \A i \in 1..Len(wire) :
          /\ wire[i].method = "mining.subscribe" => wire[i].id = 1
          /\ wire[i].method = "mining.authorize" => wire[i].id = 2
          /\ wire[i].method = "mining.submit" => wire[i].id >= 3
    /\ \A i, k \in 1..Len(wire) :
          (i < k /\ wire[i].method = "mining.submit"
                 /\ wire[k].method = "mining.submit") => wire[i].id < wire[k].id

\* C9: no Close call fails, in any state and after any number of Close calls.
C9_CloseNeverPanics == ~closePanicked

\* C10: from the return of Close until a Connect succeeds, IsConnected is
\* false, a request cannot be written, and every Submit made has returned an
\* error.
C10_ClosedClientRejectsSubmit ==
    /\ submitAfterClose # "ok"
    /\ closedSinceConnect => (~IsConnected /\ send # "ok")

\* a Submit has returned an error on a client closed after a connection
C10_Witness ==
    /\ closedSinceConnect
    /\ submitAfterClose = "error"
    /\ client.conn # NilConn
    /\ connState[client.conn] = "closed"

(***************************************************************************)
(* Claims about the incoming side of the Stratum client                    *)
(***************************************************************************)

\* the read loop l leaves its blocking read with an error: ReadString has
\* failed, and the loop has cleared the flags of the client
ReadFails(l) ==
    /\ readLoops[l].pc = "reading"
    /\ readLoops'[l].pc = "disconnected"

\* the read loop l, past a read failure, has not called onDisconnected yet
Disconnecting(l) == readLoops[l].pc \in {"disconnected", "disconnectedCall"}

\* the invocations of callback cb made by read loop l
Invocations(cb, l) ==
    {i \in 1..Len(callbacks) : callbacks[i].cb = cb /\ callbacks[i].loop = l}

\* C11: when the read of a read loop fails, the client is left disconnected
\* with subscribed and authorized false, and the loop goes on to test
\* onDisconnected: if it is nil the loop terminates, and if it is set, and
\* is not set back to nil before the call, the loop invokes it and
\* terminates; the loop invokes it once in its life, and handles nothing and
\* invokes nothing afterwards.
C11_ReadFailureDisconnects ==
    /\ [][\A l \in ConnIDs :
             /\ ReadFails(l) =>
                   /\ ~IsConnected'
                   /\ ~client'.running
                   /\ ~client'.subscribed
                   /\ ~client'.authorized
                   /\ callbacks' = callbacks
             /\ (readLoops[l].pc = "disconnected" /\ readLoops'[l] # readLoops[l]) =>
                   /\ callbacks' = callbacks
                   /\ readLoops'[l].pc = IF handlers.onDisconnected = "nil"
                                            THEN "none" ELSE "disconnectedCall"
             /\ (readLoops[l].pc = "disconnectedCall" /\ readLoops'[l] # readLoops[l]) =>
                   \/ /\ readLoops'[l].pc = "none"
                      /\ callbacks' = Append(callbacks,
                            [cb |-> "onDisconnected", loop |-> l,
                             job |-> NoJob, ok |-> FALSE])
                   \/ /\ handlers.onDisconnected = "nil"
                      /\ readLoops'[l].pc = "panicked"
                      /\ callbacks' = callbacks]_vars
    /\ [](\A l \in ConnIDs :
             Disconnecting(l) =>
                /\ Invocations("onDisconnected", l) = {}
                /\ inHand[l] = NoLine)
    /\ [](\A l \in ConnIDs :
             \A i \in Invocations("onDisconnected", l) :
                /\ readLoops[l].pc = "none"
                /\ inHand[l] = NoLine
                /\ \A k \in 1..Len(callbacks) :
                      callbacks[k].loop = l => k <= i)

\* a connection on which the client had subscribed has failed, and its read
\* loop has reported it
C11_Witness ==
    \E l \in ConnIDs :
        /\ connState[l] = "broken"
        /\ Invocations("onSubscribed", l) # {}
        /\ Invocations("onDisconnected", l) # {}
        /\ readLoops[l].pc = "none"
        /\ ~client.subscribed
        /\ ~client.running

\* the jobs of the notifies read whose handleMessage call has returned, in
\* arrival order
Handled ==
    SelectSeq(arrived,
              LAMBDA j : \A l \in ConnIDs :
                            ~(WellFormedNotify(inHand[l]) /\ inHand[l].job = j))

\* the jobs of the notifies read that handleMiningNotify has stored, in
\* arrival order: those not waiting for their handleMessage call
StoredJobs ==
    SelectSeq(arrived,
              LAMBDA j : \A l \in ConnIDs :
                            ~(/\ readLoops[l].pc = "handle"
                              /\ WellFormedNotify(inHand[l])
                              /\ inHand[l].job = j))

\* the jobs onJobReceived was invoked with, in order
JobCallbacks ==
    [i \in 1..Len(SelectSeq(callbacks, LAMBDA e : e.cb = "onJobReceived")) |->
        SelectSeq(callbacks, LAMBDA e : e.cb = "onJobReceived")[i].job]

\* Client.GetCurrentJob
GetCurrentJob == currentJob

\* s is the end of t
IsSuffix(s, t) ==
    /\ Len(s) <= Len(t)
    /\ s = SubSeq(t, Len(t) - Len(s) + 1, Len(t))

\* C12: every well-formed mining.notify replaces the current job and invokes
\* onJobReceived once, in arrival order, in every phase of the handshake:
\* GetCurrentJob returns the job of the most recent notify stored, and the
\* jobs given to onJobReceived, registered at some time and for good, are
\* the handled ones in arrival order, from some job on.
C12_NotifyReplacesJobInOrder ==
    /\ GetCurrentJob = IF StoredJobs = <<>> THEN NoJob ELSE Last(StoredJobs)
    /\ IsSuffix(JobCallbacks, Handled)

\* read loop l returns from handleMessage
Handles(l) == readLoops[l].pc = "handle" /\ readLoops'[l].pc # "handle"

\* a notification the client has nothing to do for: a mining.notify with
\* fewer than 9 params, mining.set_difficulty, or another method
IgnoredNotification(m) ==
    /\ m.valid
    /\ m.id = 0
    /\ m.method # ""
    /\ m.method = "mining.notify" => m.nparams < NotifyParams

\* C13: handling a short mining.notify, a mining.set_difficulty or a
\* notification of an unknown method changes no field of the client
\* (currentJob, extranonce1, extranonce2Size, subscribed, authorized, running,
\* conn), invokes no callback, and leaves the connection open and the read
\* loop running.
C13_IgnoredNotificationChangesNothing ==
    [][\A l \in ConnIDs :
          (Handles(l) /\ IgnoredNotification(inHand[l])) =>
             /\ currentJob' = currentJob
             /\ client' = client
             /\ callbacks' = callbacks
             /\ connState' = connState
             /\ readLoops'[l] = [readLoops[l] EXCEPT !.pc = "top"]]_vars

\* a short mining.notify was handled on a subscribed client that holds a job
C13_Witness ==
    \E l \in ConnIDs :
        /\ lastHandled.method = "mining.notify"
        /\ lastHandled.nparams < NotifyParams
        /\ IgnoredNotification(lastHandled)
        /\ readLoops[l].pc = "top"
        /\ readLoops[l].reader # NilConn
        /\ connState[readLoops[l].reader] = "open"
        /\ handlers.onJobReceived # "nil"
        /\ currentJob # NoJob
        /\ currentJob # lastHandled.job

\* C14: a line is treated as a response iff its id is a nonzero integer and
\* as a notification iff its method is non-empty: a line with a nonzero id is
\* given to handleResponse, a line with method mining.notify and all its
\* params replaces the current job and goes on to the test of onJobReceived,
\* also when it carries a nonzero id, and a line with neither changes
\* nothing.
C14_DispatchByMethodAndId ==
    [][\A l \in ConnIDs :
          Handles(l) =>
             /\ (inHand[l].valid /\ inHand[l].id # 0) =>
                    client' = handleResponse(inHand[l].id, inHand[l].r)
             /\ (/\ inHand[l].valid
                 /\ inHand[l].method = "mining.notify"
                 /\ inHand[l].nparams >= NotifyParams) =>
                    /\ currentJob' = inHand[l].job
                    /\ readLoops'[l].pc = "callback"
             /\ (~inHand[l].valid \/ (inHand[l].id = 0 /\ inHand[l].method = "")) =>
                    UNCHANGED <<client, currentJob, callbacks>>]_vars

\* a response whose error field is not null
ErrorResponse(m) == m.valid /\ m.id # 0 /\ m.r.error

\* C15: handling a response with a non-null error changes no state of the
\* client: with id 1 extranonce1, extranonce2Size and subscribed stay as they
\* are and onSubscribed is not invoked; with id 2 authorized stays as it is
\* and onAuthorized is not invoked; the client stays connected.
C15_ErrorResponseChangesNothing ==
    [][\A l \in ConnIDs :
          (Handles(l) /\ ErrorResponse(inHand[l])) =>
             /\ client' = client
             /\ currentJob' = currentJob
             /\ callbacks' = callbacks
             /\ connState' = connState
             /\ readLoops'[l] = [readLoops[l] EXCEPT !.pc = "top"]]_vars

\* the error response to mining.subscribe was handled: the client is
\* connected and not subscribed, and onSubscribed was not invoked
C15_Witness ==
    /\ ErrorResponse(lastHandled)
    /\ lastHandled.id = 1
    /\ IsConnected
    /\ connState[client.conn] = "open"
    /\ ~client.subscribed
    /\ client.extranonce1 = ""
    /\ handlers.onSubscribed # "nil"
    /\ Invocations("onSubscribed", client.conn) = {}

\* the step leaves the client on the same, running connection: it is neither
\* closed nor found failed, and no new connection is installed
SameConnection ==
    /\ client.running
    /\ client'.running
    /\ client'.conn = client.conn

\* C16: within one connection subscribed and authorized are monotonic: once
\* true they stay true until the connection is closed or fails, whatever
\* responses with id 1 or 2 arrive.
C16_FlagsMonotonic ==
    [][SameConnection =>
          /\ client.subscribed => client'.subscribed
          /\ client.authorized => client'.authorized]_vars

(***************************************************************************)
(* Claims about the shares                                                 *)
(***************************************************************************)

\* a share has been reported
ShareEmitted == lastShare # NoShare

\* the hash of the header of the last share: the one of its winning nonce
WinningHash == lastBatch.hashes[lastBatch.tried]

\* C17: every share a worker reports satisfies H <= T, where H is the hash
\* of the header built from the share's job, extranonces and nonce, and T
\* the target decoded from the nbits of the job the share names.
C17_ShareMeetsTarget ==
    ShareEmitted =>
       /\ lastBatch.job = lastShare.jobID
       /\ lastBatch.extranonce2 = lastShare.extranonce2
       /\ lastBatch.tried = lastShare.nonce
       /\ CmpLeq(WinningHash, calculateTarget(Job(lastShare.jobID).NBits))

\* a share whose hash is above the difficulty-1 target was reported for a job
\* with the regtest target, after a nonce whose hash did not meet the target
C17_Witness ==
    /\ ShareEmitted
    /\ Job(lastShare.jobID).NBits = NBitsSamples[1]
    /\ lastShare.nonce = 2
    /\ WinningHash = Big(1, 224)
    /\ lastBatch.hashes[1] = Big(1, 255)
    /\ ~CmpLeq(lastBatch.hashes[1], calculateTarget(Job(lastShare.jobID).NBits))
    /\ ~CmpLeq(WinningHash, difficulty1Target)

\* C18: the difficulty of every share reported is floor(difficulty1Target / H)
\* for its winning hash H, and 0 when H = 0, whatever the hashes of the
\* nonces tried before it in the batch, and without overflow of the quotient.
C18_ShareDifficultyIsQuotient ==
    ShareEmitted =>
       IF Sign(WinningHash) = 0
         THEN lastShare.difficulty = Float(0)
         ELSE /\ QuotientFitsInt64(WinningHash)
              /\ lastShare.difficulty = Float64(Int64(Quotient(WinningHash)))

\* the jobs UpdateJob has handed to the worker of the last share.  Its callers
\* pass what Client.GetCurrentJob returns, which is the job of a mining.notify
\* the client handled.
Delivered == {enqueued[lastBatch.w][k] : k \in 1..Len(enqueued[lastBatch.w])}

\* the target of the job the last batch was run on
BatchTarget == calculateTarget(Job(lastBatch.job).NBits)

\* C19: a batch reports at most one share, its report ending the batch, and
\* stops at the first nonce whose hash meets the target; the job id and ntime
\* of the share are those of the job read at the start of the batch, its
\* extranonce2 is the one read with that job and used for the hashes of the
\* batch, and its job id is one that was delivered to the worker.
C19_ShareFromBatchSnapshot ==
    /\ [](ShareEmitted =>
            /\ Len(lastBatch.hashes) = lastBatch.tried
            /\ \A k \in 1..(lastBatch.tried - 1) :
                   ~CmpLeq(lastBatch.hashes[k], BatchTarget)
            /\ CmpLeq(WinningHash, BatchTarget)
            /\ lastShare.nonce = lastBatch.tried
            /\ lastShare.jobID = Job(lastBatch.job).ID
            /\ lastShare.ntime = Job(lastBatch.job).NTime
            /\ lastShare.extranonce2 = lastBatch.extranonce2
            /\ lastShare.jobID \in Delivered)
    /\ [][lastShare' # lastShare =>
            \E w \in WorkerIDs, l \in LoopSlots :
               /\ loops[w][l].pc = "call"
               /\ loops'[w][l].pc \in {"throttle", "select"}
               /\ lastShare'.workerID = w
               /\ lastShare'.jobID = Job(loops[w][l].j).ID
               /\ lastShare'.ntime = Job(loops[w][l].j).NTime
               /\ lastShare'.extranonce2 = snapshot[w][l].e2]_vars

\* a share was reported at the second nonce of a batch, the first hash not
\* meeting the target, with the extranonce2 of the batch, and the worker has
\* drawn another extranonce2 for a later job since
C19_Witness ==
    /\ ShareEmitted
    /\ lastBatch.tried = 2
    /\ ~CmpLeq(lastBatch.hashes[1], BatchTarget)
    /\ lastShare.extranonce2.hexlen > 0
    /\ lastShare.extranonce2 # extranonce2[lastBatch.w]
    /\ job[lastBatch.w] # lastBatch.job
    /\ lastShare.jobID \in Delivered

\* mineLoop l of worker w has a batch in flight: from the job read for it to
\* the end of its report
InFlight(w, l) == loops[w][l].pc \in {"batch", "found", "call"}

\* C20: while a batch of a worker is in flight the worker does not switch to
\* a job delivered meanwhile, and a share names the job that is the current
\* job of its worker at the moment the share is reported.
C20_NoShareOnSupersededJob ==
    [][\A w \in WorkerIDs, l \in LoopSlots :
          /\ (InFlight(w, l) /\ InFlight(w, l)') => job'[w] = job[w]
          /\ (InFlight(w, l) /\ ~InFlight(w, l)' /\ lastShare' # lastShare)
                => lastShare'.jobID = Job(job[w]).ID]_vars

(***************************************************************************)
(* Claims about the pool                                                   *)
(***************************************************************************)

\* the ids AddWorker has handed out, returned or not yet
HandedOut == 1..(manager.nextID - 1)

\* C21: whatever the interleaving of AddWorker and RemoveWorker calls, the
\* ids AddWorker hands out are 1, 2, 3, ... each exactly once: the calls
\* that have returned gave distinct ids, all of them handed out in that
\* order by the lock sections, and no call gives an id that was handed out
\* before, removed or not.
C21_WorkerIdsDistinct ==
    /\ [](/\ \A i, k \in 1..Len(added) : added[i] = added[k] => i = k
          /\ {added[i] : i \in 1..Len(added)} \cup
                {ops[c].w : c \in {x \in PoolCallers : ops[x].op = "add"}}
               = HandedOut
          /\ removed \subseteq HandedOut
          /\ workers \subseteq HandedOut)
    /\ [][\A c \in PoolCallers :
            (ops[c].op = "idle" /\ ops'[c].op = "add")
              => /\ ops'[c].w = Cardinality(HandedOut) + 1
                 /\ ops'[c].w \notin HandedOut \cup removed]_vars

\* three workers were added by calls that overlapped, the first was removed
\* before the third was added, and the ids returned are not in the order of
\* the lock sections
C21_Witness ==
    /\ Len(added) = 3
    /\ added[1] = 2
    /\ 1 \in removed
    /\ 3 \in workers

\* goroutine c makes the step of AddWorker that holds the lock
AddLocks(c) == ops[c].op = "idle" /\ ops'[c].op = "add"

\* goroutine c makes the last step of AddWorker: the call returns
AddReturns(c) == ops[c].op = "add" /\ ops'[c].op = "idle"

\* C23: AddWorker gives the new worker the share callback the pool holds
\* when the call takes the lock, and starts the worker if and only if the
\* extranonce1 the pool holds then is not empty: when the call returns the
\* worker runs if the extranonce1 was not empty, the call has left it as it
\* was if the extranonce1 was empty, and a worker the call has started was
\* started with the extranonce1 and extranonce2Size the pool held.
C23_AddStartsIffStratumKnown ==
    [][\A c \in PoolCallers :
          /\ AddLocks(c) =>
                /\ worker'[ops'[c].w].onShareFound = manager.onShareFound
                /\ ~worker'[ops'[c].w].running
                /\ ops'[c].w \in workers'
                /\ ops'[c].e1 = manager.extranonce1
                /\ ops'[c].size = manager.extranonce2Size
          /\ AddReturns(c) =>
                LET w == ops[c].w
                IN  /\ worker'[w].running <=>
                           (worker[w].running \/ ops[c].e1 # "")
                    /\ (~worker[w].running /\ worker'[w].running) =>
                           /\ worker'[w].extranonce1 = ops[c].e1
                           /\ worker'[w].extranonce2Size = ops[c].size
                    /\ worker'[w].onShareFound = worker[w].onShareFound]_vars

\* an AddWorker call made with the stratum data known and the share callback
\* set has returned a running worker that holds both, and another callback
\* has been set in the pool since
C23_Witness ==
    /\ added = <<1>>
    /\ worker[1].running
    /\ worker[1].extranonce1 = "81000001"
    /\ worker[1].extranonce2Size = 4
    /\ worker[1].onShareFound = "submit"
    /\ manager.onShareFound = "nil"

\* no SetCPUPercent call is in progress
NoSetInProgress == \A c \in PoolCallers : ops[c].op # "cpu"

\* the step is one of a SetCPUPercent call: its lock section or its call on a
\* worker
SetCPUPercentActs ==
    \E c \in PoolCallers :
       \/ ops[c].op # "cpu" /\ ops'[c].op = "cpu"
       \/ ops[c].op = "cpu" /\ ops'[c] # ops[c]
       \/ ops[c].op \in {"idle", "apply"} /\ ops'[c].op = "idle"
             /\ manager'.cpuPercent # manager.cpuPercent

\* C24: once the SetCPUPercent calls made have returned, the pool's default
\* is the percent of the last of them and every worker in the pool has it,
\* those that were in the pool during the call and those added since, which
\* are created with the default; a SetCPUPercent call changes nothing but
\* the default and the workers' percent.
C24_SetCPUPercentReachesAll ==
    /\ [](NoSetInProgress =>
            \A w \in workers : worker[w].cpuPercent = manager.cpuPercent)
    /\ [][/\ \A c \in PoolCallers :
               AddLocks(c) => worker'[ops'[c].w].cpuPercent = manager.cpuPercent
          /\ SetCPUPercentActs =>
               /\ UNCHANGED <<workers, added, removed, workerVars, miningVars>>
               /\ [manager' EXCEPT !.cpuPercent = 0] =
                     [manager EXCEPT !.cpuPercent = 0]
               /\ \A w \in PoolIDs :
                     [worker'[w] EXCEPT !.cpuPercent = 0] =
                       [worker[w] EXCEPT !.cpuPercent = 0]]_vars

\* C25: the cpuPercent of every worker made is between 1 and 100 in every
\* reachable state, whatever the percents given to SetCPUPercent and the
\* numbers a PUT /config gives for max_cpu_percent.
C25_ThrottleInRange ==
    \A w \in HandedOut : worker[w].cpuPercent \in 1..100

(***************************************************************************)
(* Claims about the extranonce2                                            *)
(***************************************************************************)

\* the extranonce2Size that Start was given together with the extranonce1 e1
SizePassed(e1) == (CHOOSE d \in StratumData : d[1] = e1)[2]

\* C22: while a worker runs, the hex length of its extranonce2 is twice the
\* extranonce2Size given to the Start call that started it, however many
\* jobs it has taken since, and so is the length of the extranonce2 of every
\* share it reports.
C22_Extranonce2Length ==
    /\ \A w \in WorkerIDs :
          running[w] => extranonce2[w].hexlen = 2 * SizePassed(extranonce1[w])
    /\ ShareEmitted =>
          lastShare.extranonce2.hexlen = 2 * SizePassed(lastBatch.extranonce1)

\* a worker started with 4 bytes has taken two jobs, drawing an extranonce2
\* for each, and reported a share on the second with 8 hex characters
C22_Witness ==
    /\ ShareEmitted
    /\ lastBatch.job = 2
    /\ SizePassed(lastBatch.extranonce1) = 4
    /\ lastShare.extranonce2.hexlen = 8
    /\ running[lastShare.workerID]
    /\ extranonce2[lastShare.workerID].hexlen = 8

(***************************************************************************)
(* Claims about the mining start and stop requests                         *)
(***************************************************************************)

\* handleMiningStart returns "started": StartAll has returned and the
\* client holds no job, or BroadcastJob has returned
StartReturnsStarted ==
    starter.pc \in {"startEach", "update"} /\ starter'.pc = "idle"

\* handleMiningStart returns an error: a request could not be sent, or no
\* wallet address is configured
StartReturnsError ==
    /\ starter.pc \in {"subscribeSend", "subscribeWrite", "authorize",
                        "authorizeSend", "authorizeWrite"}
    /\ starter'.pc = "idle"

\* handleMiningStart, its waits over, goes on to set up the pool
StartSetsUp == starter.pc = "setup" /\ starter'.pc = "getSize"

\* C26: handleMiningStart goes on to set up and start the workers only when
\* the client is subscribed and authorized at the end of its waits; when
\* Subscribe or Authorize fails it returns an error, and then it neither
\* creates nor starts a worker nor delivers a job.
C26_StartShortCircuits ==
    [][/\ StartSetsUp => client.subscribed /\ client.authorized
       /\ StartReturnsError =>
             UNCHANGED <<workers, running, loops, jobChannel, poolStarted>>]_vars

\* handleMiningStart finds the client connected and skips the block that
\* connects, the check of the wallet included: it goes on to set up and
\* start the pool and to answer "started", nothing on that way ends it
StartSkipsWalletCheck == starter.pc = "idle" /\ starter'.pc = "setup"

\* C27: a mining start request that comes in while the configured wallet
\* address is empty creates and starts no worker and returns an error,
\* whether the client was connected before the request or not: it does not
\* go on to the set-up of the pool, and a request that reads an empty wallet
\* after Subscribe ends.
C27_NoWalletNoStart ==
    [][cfg.WalletAddress = "" =>
          /\ ~StartSkipsWalletCheck
          /\ (starter.pc = "authorize" /\ starter' # starter) =>
                 starter' = NoStarter]_vars

\* a handleMiningStop request ends: Close has returned or panicked, or a
\* Stop has panicked
StopEnds == stopping.pc # "idle" /\ stopping'.pc = "idle"

\* C28: a mining stop request stops every worker and then closes the client:
\* when the request ends no worker is running and the client is not
\* connected, and no Submit made between the return of Close and the next
\* successful Connect has been written to the connection.
C28_StopStopsAllThenCloses ==
    /\ [][StopEnds =>
            /\ \A w \in WorkerIDs : ~running'[w]
            /\ ~IsConnected']_vars
    /\ [](submitAfterClose # "ok")

\* C29: a worker's hash counter never decreases, whatever Start, Stop,
\* UpdateJob, SetCPUPercent and the batches do, a reader never sees it go
\* back, and it counts every header hashed exactly once.
C29_HashCountCountsEveryHash ==
    /\ [](\A w \in WorkerIDs : hashCount[w] = hashed[w])
    /\ [][\A w \in WorkerIDs :
             /\ hashCount'[w] >= hashCount[w]
             /\ seen'[w] >= seen[w]
             /\ hashed'[w] # hashed[w] => hashCount'[w] = hashCount[w] + 1]_vars

\* a restarted worker whose counter has been read after a batch ended with a
\* share and MaxHashes headers were hashed
C29_Witness ==
    \E w \in WorkerIDs :
        /\ hashCount[w] = MaxHashes
        /\ seen[w] = MaxHashes
        /\ lastShare # NoShare
        /\ running[w]
        /\ shutdownClosed[w]

\* the last n entries of s, all of s when it has fewer
Recent(s, n) == IF Len(s) > n THEN SubSeq(s, Len(s) - n + 1, Len(s)) ELSE s

\* C30: after any sequence of Load, AddShare, AddBlock, EndSession and Reset
\* the share and block histories hold at most maxHistorySize entries and the
\* session history at most 50, and they are the most recent entries put in,
\* in insertion order.
C30_HistoriesBoundedFIFO ==
    /\ Len(stats.shareHistory) <= MaxHistorySize
    /\ Len(stats.blockHistory) <= MaxHistorySize
    /\ Len(stats.sessionHistory) <= MaxSessionHistory
    /\ stats.shareHistory = Recent(shareLog, MaxHistorySize)
    /\ stats.blockHistory = Recent(blockLog, MaxHistorySize)
    /\ stats.sessionHistory = Recent(sessionLog, MaxSessionHistory)

\* a client is added to the hub
Subscribes(c) == c \notin hub.clients /\ c \in hub'.clients

\* the messages client c has been sent and has not lost: those its
\* writePump has written, the one it holds, and those in the send channel
Stream(c) ==
    writePumps[c].written
      \o (IF writePumps[c].pc = "write" THEN <<writePumps[c].message>> ELSE <<>>)
      \o sendChan[c].buf

\* a write of the writePump of client c has failed, and the pump has
\* returned
WriteFailed(c) == writePumps[c].pc = "failed"

\* C31: the hub's logHistory is the last min(n, 50) "log" events in order; a
\* client that subscribes finds all of them, in order, at the head of its
\* send channel, so that they reach it ahead of everything broadcast
\* afterwards, as long as no write to it fails; and AddClient never blocks.
C31_LogHistoryReplayed ==
    /\ [](/\ hub.logHistory = Recent(logged, LogHistoryCap)
          /\ ~hubBlocked
          /\ \A c \in WSClients :
                ~WriteFailed(c) =>
                   /\ Len(Stream(c)) >= Len(replayed[c])
                   /\ SubSeq(Stream(c), 1, Len(replayed[c])) = replayed[c])
    /\ [][\A c \in WSClients :
             Subscribes(c) => /\ replayed'[c] = Recent(logged, LogHistoryCap)
                              /\ sendChan'[c].buf = replayed'[c]]_vars

\* a client subscribed after more than 50 "log" events, and an event was
\* broadcast to it afterwards
C31_Witness ==
    \E c \in WSClients :
        /\ c \in hub.clients
        /\ Len(logged) > LogHistoryCap
        /\ Len(replayed[c]) = LogHistoryCap
        /\ Len(Stream(c)) > LogHistoryCap
        /\ writePumps[c].written # <<>>

\* c * 2^(8*(e-3)), a right shift of c when e < 3
CompactTarget(e, c) ==
    IF e >= 3 THEN Big(c, 8 * (e - 3)) ELSE Big(c \div (2 ^ (8 * (3 - e))), 0)

\* two numbers are the same value
SameValue(x, y) == (x.m = 0 /\ y.m = 0) \/ x = y

\* C32: calculateTarget returns c * 2^(8*(e-3)) for an nbits of four bytes
\* with exponent byte e and coefficient c, the right shift of c by 8*(3-e)
\* bits when e < 3, and zero for an nbits that does not decode to four bytes.
C32_TargetIsCompactValue ==
    LET b == DecodeString(decoded.nbits)
    IN  IF Len(b) = 4
          THEN SameValue(decoded.target,
                         CompactTarget(b[1], 65536 * b[2] + 256 * b[3] + b[4]))
          ELSE decoded.target = Zero

\* C33: no share is emitted for a job whose nbits does not decode to four
\* bytes, whatever the hashes of the batch, zero included.
C33_NoShareOnZeroTarget ==
    ShareEmitted => Len(DecodeString(Job(lastShare.jobID).NBits)) = 4

\* Client.Close is called
Closes ==
    \/ ~client.shutdownClosed /\ client'.shutdownClosed
    \/ ~closePanicked /\ closePanicked'

\* C34: once Connect has succeeded the client stays connected until Close is
\* called or a read on its connection fails, and the read failure of the
\* loop of an earlier connection leaves running, subscribed and authorized
\* as they are.
C34_ConnectionIsolation ==
    [][/\ (IsConnected /\ ~IsConnected') =>
             \/ Closes
             \/ \E l \in ConnIDs : ReadFails(l) /\ readLoops[l].reader = client.conn
       /\ \A l \in ConnIDs :
             (ReadFails(l) /\ IsConnected /\ readLoops[l].reader # client.conn) =>
                 /\ client'.running = client.running
                 /\ client'.subscribed = client.subscribed
                 /\ client'.authorized = client.authorized]_vars

\* a read loop that reads a connection that is open
ActiveLoop(l) ==
    /\ readLoops[l].pc \in {"reading", "handle", "callback", "call"}
    /\ connState[readLoops[l].reader] = "open"

\* C35: at most one read loop reads for the client and at most one
\* connection is open at any time.
C35_OneReadLoopOneConnection ==
    /\ Cardinality({l \in ConnIDs : ActiveLoop(l)}) <= 1
    /\ Cardinality({k \in ConnIDs : connState[k] = "open"}) <= 1

\* C36: once Close has returned and the read loops have exited, by the
\* shutdown signal or by a read error, the client is not authorized.
C36_AuthorizedImpliesConnected ==
    (closedSinceConnect /\ \A l \in ConnIDs : readLoops[l].pc = "none") =>
        ~client.authorized

\* RemoveWorker has returned true for this id
Removed(id) ==
    /\ id \in removed
    /\ \A c \in PoolCallers :
          ~(ops[c].op \in {"remove", "removeClose"} /\ ops[c].w = id)

\* C37: a worker RemoveWorker has taken out of the pool is not running once
\* the call has returned, whatever AddWorker and StartAll calls overlap it.
C37_RemovedWorkerNeverRuns ==
    \A id \in PoolIDs : Removed(id) => ~worker[id].running

\* C38: once every SetCPUPercent call in flight has returned, each worker of
\* the pool has the pool's default throttle, whatever calls overlapped,
\* AddWorker calls included.
C38_ThrottlesConverge ==
    NoSetInProgress =>
        \A w \in workers : worker[w].cpuPercent = manager.cpuPercent

\* C39: a running worker has the extranonce1 of a subscribe response, never
\* the empty one with an extranonce2 of size 0, whether or not the response
\* had arrived when handleMiningStart went on.
C39_StartedWithExtranonce ==
    \A w \in WorkerIDs :
        running[w] => extranonce1[w] # "" /\ extranonce2[w].hexlen > 0

\* C40: totalHashes is never below startHashes, so that the hash count
\* EndSession records, totalHashes - startHashes on 64 bits, never wraps.
C40_SessionHashesNeverWrap ==
    /\ stats.totalHashes >= stats.startHashes
    /\ \A i \in 1..Len(stats.sessionHistory) :
          stats.sessionHistory[i].totalHashes.wrapped = 0

====
